---- MODULE Spec2Model ----
(***************************************************************************)
(* Key management server: the key lifecycle (models/Key.js), the OTP       *)
(* manager (models/OTP.js, services/otpService.js) and the account guard   *)
(* (models/User.js, routes/auth.js) as state machines over the stored      *)
(* records.  Every request handler works on the document it loaded and     *)
(* writes back with Mongoose's save(), which sends only the paths whose     *)
(* value differs from the loaded one.                                      *)
(*                                                                         *)
(* Time is counted in minutes.                                             *)
(***************************************************************************)
EXTENDS Integers, Sequences, FiniteSets, TLC

VARIABLES
  now,        \* the wall clock (new Date(), Date.now()), in minutes
  key,        \* the stored Key document
  kver,       \* number of writes the stored key has received
  kpc,        \* per handler: "idle", "loaded" (findOne has answered), "done"
  kop,        \* per handler: the operation it runs and its arguments
  kdoc,       \* per handler: the document as loaded
  kloadver,   \* per handler: kver when the document was loaded
  kres,       \* per handler: the outcome of its last operation
  karg,       \* per handler: the purpose and duration its assignTo was called with
  kreturned,  \* the holder whose return was saved last
  kdel,       \* "present", or the stored status the key had when it was deleted
  otps,       \* the OTP collection, in insertion order
  accepted,   \* per OTP record: the number of verifyOTP calls it made succeed
  wrong,      \* per OTP record: the verifyOTP calls that counted an attempt on it (MaxGuesses: that many or more)
  opc,        \* per handler: its position inside createOTP / verifyOTP
  oreq,       \* per handler: the OTP request it serves
  odoc,       \* per handler: the OTP document it holds
  ores,       \* per handler: the result of its last OTP request
  onum,       \* the number of OTP requests started, where the run bounds it
  user,       \* the stored User document of the identity
  tokens,     \* the number of session tokens minted
  streak,     \* logins that failed at verifyOTP since the last successful one (5: 5 or more)
  lpc,        \* per handler: its position inside POST /login
  lreq,       \* per handler: the login request it serves
  ludoc,      \* per handler: the User document as loaded
  lres,       \* per handler: the answer to its last login request
  tkey,       \* the stored document of the models/Key.ts schema
  rrole,      \* the role an access check is asked about
  rtarget,    \* the second role of the check (required role, target role)
  rpath,      \* the route path of the check, as its sequence of characters
  rans,       \* the check made and its answer
  ident,      \* the stored User document a session token names
  tok,        \* the token a request presents
  vans,       \* the answer of the token middleware to that request
  nodeEnv,    \* process.env.NODE_ENV
  gans,       \* the answer of the role-gating middleware
  ahits       \* authLimiter: requests counted in the running window

keyVars == <<key, kver, kpc, kop, kdoc, kloadver, kres, karg, kreturned, kdel>>
otpVars == <<otps, accepted, wrong, opc, oreq, odoc, ores, onum>>
loginVars == <<user, tokens, streak, lpc, lreq, ludoc, lres>>
tsKeyVars == <<tkey>>
rbacVars == <<rrole, rtarget, rpath, rans>>
authVars == <<ident, tok, vans, nodeEnv, gans>>
limitVars == <<ahits>>
vars == <<now, key, kver, kpc, kop, kdoc, kloadver, kres, karg, kreturned,
          kdel,
          otps, accepted, wrong, opc, oreq, odoc, ores, onum,
          user, tokens, streak, lpc, lreq, ludoc, lres,
          tkey, rrole, rtarget, rpath, rans,
          ident, tok, vans, nodeEnv, gans, ahits>>

----------------------------------------------------------------------------
(* Bounds of the model *)

MaxTime == 60
MaxKeyWrites == 3
MaxOtpTime == 20
MaxOtps == 2
MaxOtpRequests == 4
MaxLoginTime == 150
MaxRateOtps == 4
MaxRateTime == 6
MaxTokenTime == 10080
MaxGuesses == 6

Handlers == {"h1", "h2"}

Min(a, b) == IF a <= b THEN a ELSE b

----------------------------------------------------------------------------
(* The clock *)

KeyTickSteps == {30}

Tick(d, max) ==
  /\ now + d <= max
  /\ now' = now + d

----------------------------------------------------------------------------
(* Key lifecycle: models/Key.js *)

NoUser == "null"
NoDate == -1
NoText == "null"

Users == {"userA", "userB"}
KeyStatuses == {"available", "assigned", "maintenance", "lost", "damaged"}
MaxAllowedTimes == {30}
(* durationMinutes as assignTo receives it: NoDuration when the caller passes *)
(* none (undefined), else the number of minutes asked for.                    *)
NoDuration == -1
Durations == {NoDuration, -10, 0, 20, 90}
AssignPurposes == {NoText, "lab"}
MaintenanceNotes == {NoText, "lock jammed"}

EmptyAssignment ==
  [assignedTo |-> NoUser, assignedAt |-> NoDate,
   expectedReturnAt |-> NoDate, purpose |-> NoText]

NoMaintenance == [lastMaintenance |-> NoDate, maintenanceNotes |-> NoText]

(* new Key(keyData); allowedRoles is an empty array unless the data give one. *)
NewKey(status, maxTime) ==
  [currentStatus |-> status,
   currentAssignment |-> EmptyAssignment,
   maintenanceInfo |-> NoMaintenance,
   maxAllowedTime |-> maxTime,
   allowedRoles |-> {}]

(* The allowedRoles the imported keys have, and the roles of the two users. *)
SeedAllowedRoles == {{}, {"faculty", "hod"}, {"security", "security_incharge"}}

HolderRole == [u \in Users |-> IF u = "userA" THEN "faculty" ELSE "security"]

NoOp == [name |-> "none", user |-> NoUser]

(* The requests: assign names the holder; its purpose and duration, and the    *)
(* notes of a maintenance request, are drawn when the method runs.            *)
KeyOps ==
  [name : {"assign"}, user : Users]
  \cup [name : {"return", "available", "maintenance"}, user : {NoUser}]

NoDoc == NewKey("available", 0)

NoArg == [purpose |-> NoText, durationMinutes |-> 0]

(* virtual('isAssigned') and virtual('isOverdue') of Key.js *)
isAssigned(doc) ==
  doc.currentStatus = "assigned" /\ doc.currentAssignment.assignedTo # NoUser

isOverdue(doc, t) ==
  IF ~isAssigned(doc) \/ doc.currentAssignment.expectedReturnAt = NoDate
  THEN FALSE
  ELSE t > doc.currentAssignment.expectedReturnAt

(* The mutant of assignTo's guard: only an assigned key is refused. *)
assignToAllowedUnlessAssigned(doc) == doc.currentStatus # "assigned"

(* assignTo's guard: the key must be available. *)
assignToAllowed(doc) == doc.currentStatus = "available"

(* assignTo's effect on the document: durationMinutes || maxAllowedTime (an   *)
(* undefined duration and 0 are both falsy), capped by maxAllowedTime;        *)
(* purpose || 'General use'.                                                  *)
assignTo(doc, userId, purpose, durationMinutes, t) ==
  LET duration == Min(IF durationMinutes \in {NoDuration, 0}
                      THEN doc.maxAllowedTime
                      ELSE durationMinutes,
                      doc.maxAllowedTime)
  IN [doc EXCEPT
        !.currentStatus = "assigned",
        !.currentAssignment =
           [assignedTo |-> userId, assignedAt |-> t,
            expectedReturnAt |-> t + duration,
            purpose |-> IF purpose = NoText THEN "General use" ELSE purpose]]

(* canBeAccessedBy: no restriction when allowedRoles is empty. *)
canBeAccessedBy(doc, userRole) ==
  IF doc.allowedRoles = {} THEN TRUE
  ELSE userRole \in doc.allowedRoles

(* returnKey without its guard. *)
returnKeyAllowedAlways(doc) == doc.currentStatus \in KeyStatuses

returnKeyAllowed(doc) == doc.currentStatus = "assigned"

returnKey(doc) ==
  [doc EXCEPT !.currentStatus = "available",
              !.currentAssignment = EmptyAssignment]

(* markAsMaintenance that leaves a lost or damaged key as it is. *)
markAsMaintenanceUnlessTerminal(doc, notes, t) ==
  IF doc.currentStatus \in {"lost", "damaged"}
  THEN doc
  ELSE [doc EXCEPT
          !.currentStatus = "maintenance",
          !.maintenanceInfo =
             [lastMaintenance |-> t,
              maintenanceNotes |-> IF notes # NoText THEN notes
                                   ELSE doc.maintenanceInfo.maintenanceNotes],
          !.currentAssignment = EmptyAssignment]

markAsMaintenance(doc, notes, t) ==
  [doc EXCEPT
     !.currentStatus = "maintenance",
     !.maintenanceInfo =
        [lastMaintenance |-> t,
         maintenanceNotes |-> IF notes # NoText THEN notes
                              ELSE doc.maintenanceInfo.maintenanceNotes],
     !.currentAssignment =
        IF doc.currentAssignment.assignedTo # NoUser THEN EmptyAssignment
        ELSE doc.currentAssignment]

markAsAvailableAllowed(doc) == doc.currentStatus # "assigned"

(* markAsAvailable that forgets to set the status. *)
markAsAvailableNoChange(doc) == doc

markAsAvailable(doc) == [doc EXCEPT !.currentStatus = "available"]

(* pre('save'): an assigned key without a holder is rejected; an assignment   *)
(* on a key that is not assigned is cleared.                                 *)
preSaveRejects(doc) ==
  doc.currentStatus = "assigned" /\ doc.currentAssignment.assignedTo = NoUser

preSave(doc) ==
  IF doc.currentStatus # "assigned" /\ doc.currentAssignment.assignedTo # NoUser
  THEN [doc EXCEPT !.currentAssignment = EmptyAssignment]
  ELSE doc

(* save() that sends currentStatus but drops the other modified paths. *)
savedKeyStatusOnly(stored, loaded, doc) ==
  [stored EXCEPT !.currentStatus =
     IF doc.currentStatus # loaded.currentStatus
     THEN doc.currentStatus ELSE stored.currentStatus]

(* save(): the update sets only the modified paths, the paths whose value      *)
(* differs from the loaded document; no version or status condition is sent.   *)
savedKey(stored, loaded, doc) ==
  [currentStatus |->
     IF doc.currentStatus # loaded.currentStatus
     THEN doc.currentStatus ELSE stored.currentStatus,
   currentAssignment |->
     IF doc.currentAssignment # loaded.currentAssignment
     THEN doc.currentAssignment ELSE stored.currentAssignment,
   maintenanceInfo |->
     [lastMaintenance |->
        IF doc.maintenanceInfo.lastMaintenance
             # loaded.maintenanceInfo.lastMaintenance
        THEN doc.maintenanceInfo.lastMaintenance
        ELSE stored.maintenanceInfo.lastMaintenance,
      maintenanceNotes |->
        IF doc.maintenanceInfo.maintenanceNotes
             # loaded.maintenanceInfo.maintenanceNotes
        THEN doc.maintenanceInfo.maintenanceNotes
        ELSE stored.maintenanceInfo.maintenanceNotes],
   maxAllowedTime |-> stored.maxAllowedTime,
   allowedRoles |-> stored.allowedRoles]

(* Key.findOne: the handler gets its own copy of the stored document; a       *)
(* deleted key is not found.                                                  *)
KeyLoad(h, o) ==
  /\ kpc[h] = "idle"
  /\ kver < MaxKeyWrites
  /\ kop' = [kop EXCEPT ![h] = o]
  /\ IF kdel = "present"
     THEN /\ kpc' = [kpc EXCEPT ![h] = "loaded"]
          /\ kdoc' = [kdoc EXCEPT ![h] = key]
          /\ kloadver' = [kloadver EXCEPT ![h] = kver]
          /\ kres' = [kres EXCEPT ![h] = "none"]
     ELSE /\ kpc' = [kpc EXCEPT ![h] = "done"]
          /\ kres' = [kres EXCEPT ![h] = "NOT_FOUND"]
          /\ UNCHANGED <<kdoc, kloadver>>
  /\ UNCHANGED <<key, kver, karg, kreturned, kdel, now>>

(* The method threw before it changed anything: nothing is saved. *)
KeyRefuse(h) ==
  /\ kpc' = [kpc EXCEPT ![h] = "done"]
  /\ kres' = [kres EXCEPT ![h] = "CONFLICT"]
  /\ UNCHANGED <<key, kver, kop, kdoc, kloadver, kreturned, kdel, now>>

(* The method changed the document and called save(); pre('save') may reject  *)
(* it, and the update of a document that was deleted meanwhile matches        *)
(* nothing and fails.                                                         *)
KeySave(h, doc) ==
  IF preSaveRejects(doc) \/ kdel # "present"
  THEN /\ kpc' = [kpc EXCEPT ![h] = "done"]
       /\ kres' = [kres EXCEPT ![h] = "ERROR"]
       /\ UNCHANGED <<key, kver, kop, kdoc, kloadver, kreturned, kdel, now>>
  ELSE /\ key' = savedKey(key, kdoc[h], preSave(doc))
       /\ kver' = kver + 1
       /\ kpc' = [kpc EXCEPT ![h] = "done"]
       /\ kres' = [kres EXCEPT ![h] = "OK"]
       /\ kreturned' = IF kop[h].name = "return"
                       THEN kdoc[h].currentAssignment.assignedTo
                       ELSE kreturned
       /\ UNCHANGED <<kop, kdoc, kloadver, kdel, now>>

AssignTo(h) ==
  /\ kpc[h] = "loaded"
  /\ kop[h].name = "assign"
  /\ IF assignToAllowed(kdoc[h])
     THEN \E purpose \in AssignPurposes, durationMinutes \in Durations :
            /\ KeySave(h, assignTo(kdoc[h], kop[h].user, purpose,
                                   durationMinutes, now))
            /\ karg' = [karg EXCEPT ![h] =
                          [purpose |-> purpose,
                           durationMinutes |-> durationMinutes]]
     ELSE KeyRefuse(h) /\ UNCHANGED karg

ReturnKey(h) ==
  /\ kpc[h] = "loaded"
  /\ kop[h].name = "return"
  /\ IF returnKeyAllowed(kdoc[h])
     THEN KeySave(h, returnKey(kdoc[h]))
     ELSE KeyRefuse(h)
  /\ UNCHANGED karg

MarkAsMaintenance(h) ==
  /\ kpc[h] = "loaded"
  /\ kop[h].name = "maintenance"
  /\ \E notes \in MaintenanceNotes :
       KeySave(h, markAsMaintenance(kdoc[h], notes, now))
  /\ UNCHANGED karg

MarkAsAvailable(h) ==
  /\ kpc[h] = "loaded"
  /\ kop[h].name = "available"
  /\ IF markAsAvailableAllowed(kdoc[h])
     THEN KeySave(h, markAsAvailable(kdoc[h]))
     ELSE KeyRefuse(h)
  /\ UNCHANGED karg

DeleteOp == [name |-> "delete", user |-> NoUser]

(* DELETE /:keyId after its findOne: an assigned key is refused, otherwise    *)
(* Key.deleteOne({ keyId }) removes whatever is stored under the id.          *)
KeyDelete(h) ==
  /\ kpc[h] = "loaded"
  /\ kop[h].name = "delete"
  /\ IF kdoc[h].currentStatus = "assigned"
     THEN KeyRefuse(h)
     ELSE /\ kdel' = IF kdel = "present" THEN key.currentStatus ELSE kdel
          /\ kpc' = [kpc EXCEPT ![h] = "done"]
          /\ kres' = [kres EXCEPT ![h] = "OK"]
          /\ UNCHANGED <<key, kver, kop, kdoc, kloadver, kreturned, now>>
  /\ UNCHANGED karg

(* The handler has answered; it can take the next request. *)
KeyRespond(h) ==
  /\ kpc[h] = "done"
  /\ kpc' = [kpc EXCEPT ![h] = "idle"]
  /\ kop' = [kop EXCEPT ![h] = NoOp]
  /\ kdoc' = [kdoc EXCEPT ![h] = NoDoc]
  /\ kloadver' = [kloadver EXCEPT ![h] = 0]
  /\ kres' = [kres EXCEPT ![h] = "none"]
  /\ karg' = [karg EXCEPT ![h] = NoArg]
  /\ UNCHANGED <<key, kver, kreturned, kdel, now>>

KeyTick ==
  /\ \E d \in KeyTickSteps : Tick(d, MaxTime)
  /\ UNCHANGED <<keyVars, otpVars, loginVars, tsKeyVars, rbacVars,
               authVars, limitVars>>

KeyInitWith(keys) ==
  /\ key \in keys
  /\ kver = 0
  /\ kpc = [h \in Handlers |-> "idle"]
  /\ kop = [h \in Handlers |-> NoOp]
  /\ kdoc = [h \in Handlers |-> NoDoc]
  /\ kloadver = [h \in Handlers |-> 0]
  /\ kres = [h \in Handlers |-> "none"]
  /\ karg = [h \in Handlers |-> NoArg]
  /\ kreturned = NoUser
  /\ kdel = "present"

KeyInit(statuses) ==
  KeyInitWith({NewKey(s, m) : s \in statuses, m \in MaxAllowedTimes})

----------------------------------------------------------------------------
(* OTP manager: models/OTP.js and services/otpService.js *)

Emails == {"alice@x"}
Purposes == {"login", "registration"}
Codes == {"111111", "222222"}

OtpExpiresIn == 15
MaxOtpAttempts == 5
OtpTickSteps == {10}

NoId == 0

NoOtpDoc == [id |-> NoId, attempts |-> 0, isUsed |-> FALSE, expiresAt |-> NoDate,
             createdAt |-> NoDate]

NoOtpReq == [op |-> "none", email |-> NoText, purpose |-> NoText, otp |-> NoText,
             at |-> NoDate]

OtpIds == 1..Len(otps)

(* new OTP({ email, otp, purpose, expiresAt }): attempts 0, isUsed false,     *)
(* createdAt Date.now.                                                        *)
NewOTP(email, otpCode, purpose, t) ==
  [email |-> email, otp |-> otpCode, purpose |-> purpose, attempts |-> 0,
   isUsed |-> FALSE, expiresAt |-> t + OtpExpiresIn, createdAt |-> t]

isExpired(doc, t) == doc.expiresAt < t

isValid(doc, t) ==
  ~doc.isUsed /\ ~isExpired(doc, t) /\ doc.attempts < MaxOtpAttempts

(* findValidOTP without the purpose in its query. *)
findValidOTPAnyPurpose(email, otpCode, purpose, t) ==
  {i \in OtpIds :
     /\ otps[i].email = email
     /\ otps[i].otp = otpCode
     /\ ~otps[i].isUsed
     /\ otps[i].expiresAt > t
     /\ otps[i].attempts < MaxOtpAttempts}

(* The documents findValidOTP's query matches. *)
findValidOTP(email, otpCode, purpose, t) ==
  {i \in OtpIds :
     /\ otps[i].email = email
     /\ otps[i].otp = otpCode
     /\ otps[i].purpose = purpose
     /\ ~otps[i].isUsed
     /\ otps[i].expiresAt > t
     /\ otps[i].attempts < MaxOtpAttempts}

(* The documents findLatestOTP's query puts first: sort({ createdAt: -1 }). *)
findLatestOTP(email, purpose, t) ==
  LET match == {i \in OtpIds :
                  /\ otps[i].email = email
                  /\ otps[i].purpose = purpose
                  /\ ~otps[i].isUsed
                  /\ otps[i].expiresAt > t}
  IN {i \in match : \A j \in match : otps[j].createdAt <= otps[i].createdAt}

(* The mutant of pre('save'): nothing is invalidated. *)
invalidatePriorSkipped(coll, email, purpose) == coll

(* pre('save') of a new document: updateMany({ email, purpose, isUsed: false }, *)
(* { $set: { isUsed: true } }).                                               *)
invalidatePrior(coll, email, purpose) ==
  [i \in 1..Len(coll) |->
     IF coll[i].email = email /\ coll[i].purpose = purpose /\ ~coll[i].isUsed
     THEN [coll[i] EXCEPT !.isUsed = TRUE]
     ELSE coll[i]]

(* invalidateAllOTPs(email, purpose = null). *)
invalidateAllOTPs(coll, email, purpose) ==
  [i \in 1..Len(coll) |->
     IF coll[i].email = email /\ (purpose = NoText \/ coll[i].purpose = purpose)
     THEN [coll[i] EXCEPT !.isUsed = TRUE]
     ELSE coll[i]]

OtpInserting == {h \in Handlers : opc[h] = "insert"}

(* A request starts; a bounded run serves at most MaxOtpRequests of them. *)
OtpStart(bounded) ==
  IF bounded THEN onum < MaxOtpRequests /\ onum' = onum + 1
  ELSE UNCHANGED onum

OtpFinish(h, result) ==
  /\ opc' = [opc EXCEPT ![h] = "done"]
  /\ ores' = [ores EXCEPT ![h] = result]

(* createOTP, first half: the document is built and save() runs pre('save'),   *)
(* which marks the prior unused documents of the pair used.                   *)
CreateOTP(h, email, purpose, otpCode, bounded) ==
  /\ opc[h] = "idle"
  /\ OtpStart(bounded)
  /\ Len(otps) + Cardinality(OtpInserting) < MaxOtps
  /\ oreq' = [oreq EXCEPT ![h] = [op |-> "create", email |-> email,
                                  purpose |-> purpose, otp |-> otpCode, at |-> now]]
  /\ otps' = invalidatePrior(otps, email, purpose)
  /\ opc' = [opc EXCEPT ![h] = "insert"]
  /\ ores' = [ores EXCEPT ![h] = "none"]
  /\ UNCHANGED <<accepted, wrong, odoc, now>>

(* createOTP, second half: the new document is inserted. *)
InsertOTP(h) ==
  /\ opc[h] = "insert"
  /\ otps' = Append(otps, NewOTP(oreq[h].email, oreq[h].otp, oreq[h].purpose,
                                 oreq[h].at))
  /\ accepted' = Append(accepted, 0)
  /\ wrong' = Append(wrong, 0)
  /\ OtpFinish(h, "success")
  /\ UNCHANGED <<oreq, odoc, now, onum>>

(* verifyOTP: OTP.findValidOTP(email, otpCode, purpose). *)
VerifyFind(h, email, purpose, otpCode, bounded) ==
  /\ opc[h] = "idle"
  /\ OtpStart(bounded)
  /\ Len(otps) > 0
  /\ oreq' = [oreq EXCEPT ![h] = [op |-> "verify", email |-> email,
                                  purpose |-> purpose, otp |-> otpCode, at |-> now]]
  /\ ores' = [ores EXCEPT ![h] = "none"]
  /\ LET found == findValidOTP(email, otpCode, purpose, now)
     IN IF found = {}
        THEN /\ opc' = [opc EXCEPT ![h] = "latest"]
             /\ odoc' = [odoc EXCEPT ![h] = NoOtpDoc]
        ELSE \E i \in found :
               /\ opc' = [opc EXCEPT ![h] = "found"]
               /\ odoc' = [odoc EXCEPT ![h] =
                    [id |-> i, attempts |-> otps[i].attempts,
                     isUsed |-> otps[i].isUsed, expiresAt |-> otps[i].expiresAt,
                     createdAt |-> otps[i].createdAt]]
  /\ UNCHANGED <<otps, accepted, wrong, now>>

(* verifyOTP, no valid document: OTP.findLatestOTP(email, purpose). *)
VerifyLatest(h) ==
  /\ opc[h] = "latest"
  /\ LET latest == findLatestOTP(oreq[h].email, oreq[h].purpose, now)
     IN IF latest = {}
        THEN /\ OtpFinish(h, "INVALID_OTP")
             /\ UNCHANGED odoc
        ELSE \E i \in latest :
               /\ opc' = [opc EXCEPT ![h] = "increment"]
               /\ odoc' = [odoc EXCEPT ![h] =
                    [id |-> i, attempts |-> otps[i].attempts,
                     isUsed |-> otps[i].isUsed, expiresAt |-> otps[i].expiresAt,
                     createdAt |-> otps[i].createdAt]]
               /\ UNCHANGED ores
  /\ UNCHANGED <<otps, accepted, wrong, oreq, now, onum>>

(* (incrementAttemptsRejectedAtMax is the mutant that refuses the fifth.)       *)
(* incrementAttempts on the loaded document: this.attempts += 1; save().      *)
(* The schema's max: 5 makes save() reject a sixth attempt, and verifyOTP      *)
(* rethrows it as 'Failed to verify OTP'.                                     *)
incrementAttemptsRejectedAtMax(doc) == doc.attempts + 1 >= MaxOtpAttempts

incrementAttemptsRejected(doc) == doc.attempts + 1 > MaxOtpAttempts

VerifyIncrement(h) ==
  /\ opc[h] = "increment"
  /\ IF incrementAttemptsRejected(odoc[h])
     THEN /\ OtpFinish(h, "EXCEPTION")
          /\ UNCHANGED <<otps, wrong>>
     ELSE /\ otps' = [otps EXCEPT ![odoc[h].id].attempts = odoc[h].attempts + 1]
          /\ wrong' = [wrong EXCEPT ![odoc[h].id] = Min(@ + 1, MaxGuesses)]
          /\ OtpFinish(h, "INVALID_OTP")
  /\ UNCHANGED <<accepted, oreq, odoc, now, onum>>

(* verifyOTP, a valid document was found: isValid() on the loaded document,   *)
(* then markAsUsed().                                                         *)
VerifyAccept(h) ==
  /\ opc[h] = "found"
  /\ IF isValid(odoc[h], now)
     THEN /\ otps' = [otps EXCEPT ![odoc[h].id].isUsed = TRUE]
          /\ accepted' = [accepted EXCEPT ![odoc[h].id] = @ + 1]
          /\ UNCHANGED wrong
          /\ OtpFinish(h, "success")
     ELSE /\ OtpFinish(h, "OTP_EXPIRED")
          /\ UNCHANGED <<otps, accepted, wrong>>
  /\ UNCHANGED <<oreq, odoc, now, onum>>

(* invalidateOTPs(email, purpose = null): one updateMany. *)
InvalidateOTPs(h, email, purpose, bounded) ==
  /\ opc[h] = "idle"
  /\ OtpStart(bounded)
  /\ Len(otps) > 0
  /\ oreq' = [oreq EXCEPT ![h] = [op |-> "invalidate", email |-> email,
                                  purpose |-> purpose, otp |-> NoText, at |-> now]]
  /\ otps' = invalidateAllOTPs(otps, email, purpose)
  /\ OtpFinish(h, "success")
  /\ UNCHANGED <<accepted, wrong, odoc, now>>

(* The service call has returned; the handler can take the next request. *)
OtpReturn(h) ==
  /\ opc[h] = "done"
  /\ opc' = [opc EXCEPT ![h] = "idle"]
  /\ oreq' = [oreq EXCEPT ![h] = NoOtpReq]
  /\ odoc' = [odoc EXCEPT ![h] = NoOtpDoc]
  /\ ores' = [ores EXCEPT ![h] = "none"]
  /\ UNCHANGED <<otps, accepted, wrong, now, onum>>

OtpTick ==
  /\ \E d \in OtpTickSteps : Tick(d, MaxOtpTime)
  /\ UNCHANGED <<keyVars, otpVars, loginVars, tsKeyVars, rbacVars,
               authVars, limitVars>>

OtpInit ==
  /\ otps = <<>>
  /\ accepted = <<>>
  /\ wrong = <<>>
  /\ opc = [h \in Handlers |-> "idle"]
  /\ oreq = [h \in Handlers |-> NoOtpReq]
  /\ odoc = [h \in Handlers |-> NoOtpDoc]
  /\ ores = [h \in Handlers |-> "none"]
  /\ onum = 0

(* One step of a handler serving OTP requests for the given purposes. *)
OtpStep(h, purposes, bounded) ==
  /\ \/ \E e \in Emails, p \in purposes, c \in Codes :
          CreateOTP(h, e, p, c, bounded)
     \/ InsertOTP(h)
     \/ \E e \in Emails, p \in purposes, c \in Codes :
          VerifyFind(h, e, p, c, bounded)
     \/ VerifyLatest(h)
     \/ VerifyIncrement(h)
     \/ VerifyAccept(h)
     \/ \E e \in Emails, p \in purposes \cup {NoText} :
          InvalidateOTPs(h, e, p, bounded)
     \/ OtpReturn(h)
  /\ UNCHANGED <<keyVars, loginVars, tsKeyVars, rbacVars,
               authVars, limitVars>>

----------------------------------------------------------------------------
(* Account guard and OTP login: models/User.js and routes/auth.js *)

MaxLoginAttempts == 5
LockTime == 120
LoginTickSteps == {30}

NoLogin == [email |-> NoText, otp |-> NoText]

(* new User(userProfile): active, no failure counted, no lock. *)
NewUser ==
  [exists |-> TRUE, isActive |-> TRUE, loginAttempts |-> 0,
   lockUntil |-> NoDate]

(* No document for the email. *)
MissingUser == [NewUser EXCEPT !.exists = FALSE]

(* The identity after an administrator deactivated it. *)
DeactivatedUser == [NewUser EXCEPT !.isActive = FALSE]

(* The lock that never runs out. *)
isLockedOnceSet(u, t) == u.lockUntil # NoDate

(* virtual('isLocked'): !!(this.lockUntil && this.lockUntil > Date.now()). *)
isLocked(u, t) == u.lockUntil # NoDate /\ u.lockUntil > t

(* The update with the lock set one failure late. *)
incLoginAttemptsLockLate(stored, this, t) ==
  IF this.lockUntil # NoDate /\ this.lockUntil < t
  THEN [stored EXCEPT !.lockUntil = NoDate, !.loginAttempts = 1]
  ELSE [stored EXCEPT
          !.loginAttempts = @ + 1,
          !.lockUntil =
             IF this.loginAttempts >= MaxLoginAttempts /\ ~isLocked(this, t)
             THEN t + LockTime ELSE @]

(* The update without the restart after an expired lock. *)
incLoginAttemptsNoRestart(stored, this, t) ==
  [stored EXCEPT
     !.loginAttempts = @ + 1,
     !.lockUntil =
        IF this.loginAttempts + 1 >= MaxLoginAttempts /\ ~isLocked(this, t)
        THEN t + LockTime ELSE @]

(* incLoginAttempts on the loaded document `this`: the update it sends,       *)
(* applied to the stored document.                                            *)
incLoginAttempts(stored, this, t) ==
  IF this.lockUntil # NoDate /\ this.lockUntil < t
  THEN [stored EXCEPT !.lockUntil = NoDate, !.loginAttempts = 1]
  ELSE [stored EXCEPT
          !.loginAttempts = @ + 1,
          !.lockUntil =
             IF this.loginAttempts + 1 >= MaxLoginAttempts /\ ~isLocked(this, t)
             THEN t + LockTime ELSE @]

(* The reset that leaves the counter. *)
resetLoginAttemptsLockOnly(stored) == [stored EXCEPT !.lockUntil = NoDate]

(* resetLoginAttempts: $unset of loginAttempts and lockUntil; the schema       *)
(* defaults (0, null) show when the document is loaded again.                 *)
resetLoginAttempts(stored) ==
  [stored EXCEPT !.loginAttempts = 0, !.lockUntil = NoDate]

LoginFinish(h, answer) ==
  /\ lpc' = [lpc EXCEPT ![h] = "done"]
  /\ lres' = [lres EXCEPT ![h] = answer]

(* The checks of POST /login without the one on isActive. *)
loginChecksWithoutActive(u, t) ==
  IF ~u.exists THEN "INVALID_CREDENTIALS"
  ELSE IF isLocked(u, t) THEN "ACCOUNT_LOCKED"
  ELSE "none"

(* The checks of POST /login without the one on isLocked. *)
loginChecksWithoutLock(u, t) ==
  IF ~u.exists THEN "INVALID_CREDENTIALS"
  ELSE IF ~u.isActive THEN "ACCOUNT_DEACTIVATED"
  ELSE "none"

(* The checks POST /login makes on the result of User.findByEmail, in their   *)
(* order: the error thrown, or none.                                          *)
loginChecks(u, t) ==
  IF ~u.exists THEN "INVALID_CREDENTIALS"
  ELSE IF ~u.isActive THEN "ACCOUNT_DEACTIVATED"
  ELSE IF isLocked(u, t) THEN "ACCOUNT_LOCKED"
  ELSE "none"

(* POST /login: User.findByEmail, then the checks on the loaded document. *)
LoginLoad(h, email, otpCode) ==
  /\ lpc[h] = "idle"
  /\ opc[h] = "idle"
  /\ lreq' = [lreq EXCEPT ![h] = [email |-> email, otp |-> otpCode]]
  /\ ludoc' = [ludoc EXCEPT ![h] = user]
  /\ IF loginChecks(user, now) # "none"
     THEN LoginFinish(h, loginChecks(user, now))
     ELSE /\ lpc' = [lpc EXCEPT ![h] = "loaded"]
          /\ lres' = [lres EXCEPT ![h] = "none"]
  /\ UNCHANGED <<user, tokens, streak, now, otpVars>>

(* otpService.verifyOTP(email, otp, 'login'): its first query. *)
LoginVerify(h) ==
  /\ lpc[h] = "loaded"
  /\ VerifyFind(h, lreq[h].email, "login", lreq[h].otp, FALSE)
  /\ lpc' = [lpc EXCEPT ![h] = "verifying"]
  /\ UNCHANGED <<user, tokens, streak, lreq, ludoc, lres>>

(* verifyOTP's later steps, inside the login. *)
LoginVerifying(h) ==
  /\ lpc[h] = "verifying"
  /\ \/ VerifyLatest(h)
     \/ VerifyIncrement(h)
     \/ VerifyAccept(h)
  /\ UNCHANGED loginVars

(* verifyOTP did not succeed. A returned failure: user.incLoginAttempts(),     *)
(* then the error is thrown with the code verifyOTP gave. A verifyOTP that     *)
(* threw: the request ends with the server error and incLoginAttempts is not   *)
(* called. Either way the login has failed.                                    *)
LoginFailed(h) ==
  /\ lpc[h] = "verifying"
  /\ opc[h] = "done"
  /\ ores[h] # "success"
  /\ IF ores[h] = "EXCEPTION"
     THEN /\ LoginFinish(h, "INTERNAL_ERROR")
          /\ UNCHANGED user
     ELSE /\ LoginFinish(h, ores[h])
          /\ user' = incLoginAttempts(user, ludoc[h], now)
  /\ streak' = Min(streak + 1, MaxLoginAttempts)
  /\ OtpReturn(h)
  /\ UNCHANGED <<tokens, lreq, ludoc>>

(* verifyOTP succeeded: resetLoginAttempts, updateLastLogin, generateToken. *)
LoginSucceeded(h) ==
  /\ lpc[h] = "verifying"
  /\ opc[h] = "done"
  /\ ores[h] = "success"
  /\ user' = resetLoginAttempts(user)
  /\ tokens' = tokens + 1
  /\ streak' = 0
  /\ LoginFinish(h, "success")
  /\ OtpReturn(h)
  /\ UNCHANGED <<lreq, ludoc>>

LoginRespond(h) ==
  /\ lpc[h] = "done"
  /\ lpc' = [lpc EXCEPT ![h] = "idle"]
  /\ lreq' = [lreq EXCEPT ![h] = NoLogin]
  /\ ludoc' = [ludoc EXCEPT ![h] = NewUser]
  /\ lres' = [lres EXCEPT ![h] = "none"]
  /\ UNCHANGED <<user, tokens, streak, now, otpVars>>

(* POST /simple-auth: a user the email has none for is created, then          *)
(* otpService.createOTP(email, 'login').                                      *)
LoginRequestOtp(h) ==
  /\ lpc[h] = "idle"
  /\ \/ /\ \E e \in Emails, c \in Codes : CreateOTP(h, e, "login", c, FALSE)
        /\ user' = IF user.exists THEN user ELSE NewUser
     \/ InsertOTP(h) /\ UNCHANGED user
     \/ oreq[h].op = "create" /\ OtpReturn(h) /\ UNCHANGED user
  /\ UNCHANGED <<tokens, streak, lpc, lreq, ludoc, lres>>

LoginTick ==
  /\ \E d \in LoginTickSteps : Tick(d, MaxLoginTime)
  /\ UNCHANGED <<keyVars, otpVars, loginVars, tsKeyVars, rbacVars,
               authVars, limitVars>>

LoginInitWith(users) ==
  /\ user \in users
  /\ tokens = 0
  /\ streak = 0
  /\ lpc = [h \in Handlers |-> "idle"]
  /\ lreq = [h \in Handlers |-> NoLogin]
  /\ ludoc = [h \in Handlers |-> NewUser]
  /\ lres = [h \in Handlers |-> "none"]

LoginInit == LoginInitWith({NewUser})

LoginStep(h) ==
  /\ \/ \E e \in Emails, c \in Codes : LoginLoad(h, e, c)
     \/ LoginVerify(h)
     \/ LoginVerifying(h)
     \/ LoginFailed(h)
     \/ LoginSucceeded(h)
     \/ LoginRespond(h)
     \/ LoginRequestOtp(h)
  /\ UNCHANGED <<keyVars, tsKeyVars, rbacVars,
               authVars, limitVars>>

----------------------------------------------------------------------------
(* OTP request rate: OTPService.canRequestOTP and POST /request-otp *)

RateWindow == 5
MaxOTPsPerPeriod == 3
RateTickSteps == {1, 5}

(* The requests whose rate is followed: one pair, a second purpose of the    *)
(* same email and a second email; all with the same code.                     *)
RateRequests ==
  {<<"alice@x", "login">>, <<"alice@x", "registration">>, <<"bob@x", "login">>}
RateCode == "111111"

(* OTP.countDocuments({ email, purpose, createdAt: { $gte: fiveMinutesAgo } }) *)
recentOTPs(coll, email, purpose, t) ==
  Cardinality({i \in 1..Len(coll) :
                 /\ coll[i].email = email
                 /\ coll[i].purpose = purpose
                 /\ coll[i].createdAt >= t - RateWindow})

(* canRequestOTP counting the documents not yet used only. *)
canRequestOTPActiveOnly(coll, email, purpose, t) ==
  Cardinality({i \in 1..Len(coll) :
                 /\ coll[i].email = email
                 /\ coll[i].purpose = purpose
                 /\ ~coll[i].isUsed
                 /\ coll[i].createdAt >= t - RateWindow}) < MaxOTPsPerPeriod

canRequestOTP(coll, email, purpose, t) ==
  ~(recentOTPs(coll, email, purpose, t) >= MaxOTPsPerPeriod)

(* POST /request-otp from the rate check on: otpService.canRequestOTP, and   *)
(* AppError OTP_RATE_LIMIT when it refuses.                                   *)
CanRequestOTP(h, email, purpose) ==
  /\ opc[h] = "idle"
  /\ canRequestOTP(otps, email, purpose, now) => Len(otps) < MaxRateOtps
  /\ oreq' = [oreq EXCEPT ![h] = [op |-> "request", email |-> email,
                                  purpose |-> purpose, otp |-> NoText, at |-> now]]
  /\ IF canRequestOTP(otps, email, purpose, now)
     THEN /\ opc' = [opc EXCEPT ![h] = "allowed"]
          /\ ores' = [ores EXCEPT ![h] = "none"]
     ELSE OtpFinish(h, "OTP_RATE_LIMIT")
  /\ UNCHANGED <<otps, accepted, wrong, odoc, now, onum>>

(* POST /request-otp, allowed: otpService.createOTP(email, purpose), whose    *)
(* save() runs pre('save') first; InsertOTP stores the document.              *)
RequestCreateOTP(h) ==
  /\ opc[h] = "allowed"
  /\ oreq' = [oreq EXCEPT ![h].op = "create", ![h].otp = RateCode,
                          ![h].at = now]
  /\ otps' = invalidatePrior(otps, oreq[h].email, oreq[h].purpose)
  /\ opc' = [opc EXCEPT ![h] = "insert"]
  /\ UNCHANGED <<accepted, wrong, odoc, ores, now, onum>>

RateTick ==
  /\ \E d \in RateTickSteps : Tick(d, MaxRateTime)
  /\ UNCHANGED <<keyVars, otpVars, loginVars, tsKeyVars, rbacVars,
               authVars, limitVars>>

(* One step of a handler serving POST /request-otp. *)
RequestOtpStep(h) ==
  /\ \/ \E r \in RateRequests : CanRequestOTP(h, r[1], r[2])
     \/ RequestCreateOTP(h)
     \/ InsertOTP(h)
     \/ OtpReturn(h)
  /\ UNCHANGED <<keyVars, loginVars, tsKeyVars, rbacVars,
               authVars, limitVars>>

(* The documents cleanupExpiredOTPs deletes: deleteMany({ $or:                 *)
(* [{ expiresAt: { $lt: new Date() } }, { isUsed: true }] }).                 *)
cleanupExpiredOTPs(coll, t) ==
  {i \in 1..Len(coll) : coll[i].expiresAt < t \/ coll[i].isUsed}

(* A sequence kept in step with the collection, without the deleted ones. *)
withoutDeleted(seq, deleted) ==
  LET kept[i \in 0..Len(seq)] ==
        IF i = 0 THEN <<>>
        ELSE IF i \in deleted THEN kept[i - 1]
        ELSE Append(kept[i - 1], seq[i])
  IN kept[Len(seq)]

(* OTPService.cleanupExpiredOTPs(), run while no verifyOTP holds a document. *)
CleanupExpiredOTPs(h) ==
  /\ opc[h] = "idle"
  /\ Len(otps) > 0
  /\ \A g \in Handlers : odoc[g].id = NoId
  /\ oreq' = [oreq EXCEPT ![h] = [op |-> "cleanup", email |-> NoText,
                                  purpose |-> NoText, otp |-> NoText, at |-> now]]
  /\ otps' = withoutDeleted(otps, cleanupExpiredOTPs(otps, now))
  /\ accepted' = withoutDeleted(accepted, cleanupExpiredOTPs(otps, now))
  /\ wrong' = withoutDeleted(wrong, cleanupExpiredOTPs(otps, now))
  /\ OtpFinish(h, "success")
  /\ UNCHANGED <<odoc, now, onum>>

(* One step of a handler serving the requests for alice@x and login: the      *)
(* rate check and createOTP, verifyOTP, invalidateOTPs and the cleanup.       *)
MaintenanceStep(h) ==
  /\ \/ CanRequestOTP(h, "alice@x", "login")
     \/ RequestCreateOTP(h)
     \/ InsertOTP(h)
     \/ \E c \in Codes : VerifyFind(h, "alice@x", "login", c, FALSE)
     \/ VerifyLatest(h)
     \/ VerifyIncrement(h)
     \/ VerifyAccept(h)
     \/ \E p \in {"login", NoText} : InvalidateOTPs(h, "alice@x", p, FALSE)
     \/ CleanupExpiredOTPs(h)
     \/ OtpReturn(h)
  /\ UNCHANGED <<keyVars, loginVars, tsKeyVars, rbacVars,
               authVars, limitVars>>

----------------------------------------------------------------------------
(* The key schema of src/models/Key.ts *)

TsKeyStatuses == {"available", "issued", "overdue", "maintenance"}
TsDueDates == {30}

NewTsKey(status, dueDate) == [status |-> status, dueDate |-> dueDate]

(* The seeded keys: an issued key has its due date, the others none. *)
TsSeedKeys ==
  {NewTsKey("available", NoDate), NewTsKey("maintenance", NoDate)}
  \cup {NewTsKey("issued", d) : d \in TsDueDates}

(* virtual('isOverdue') of Key.ts *)
tsIsOverdue(doc, t) ==
  IF doc.status = "issued" /\ doc.dueDate # NoDate THEN t > doc.dueDate
  ELSE FALSE

(* pre('save') of Key.ts: an issued key saved after its due date gets the      *)
(* status overdue.                                                            *)
tsPreSave(doc, t) ==
  IF doc.status = "issued" /\ doc.dueDate # NoDate /\ t > doc.dueDate
  THEN [doc EXCEPT !.status = "overdue"]
  ELSE doc

(* A document of the schema is loaded and saved: the status set by             *)
(* pre('save') is a modified path and is written.                             *)
TsKeySave ==
  /\ tkey' = tsPreSave(tkey, now)
  /\ UNCHANGED <<now, keyVars, otpVars, loginVars, rbacVars,
               authVars, limitVars>>

TsKeyInit(seeds) == tkey \in seeds

----------------------------------------------------------------------------
(* Role based access control: services/rbacService.js *)

(* Route paths are sequences of characters, so that startsWith compares       *)
(* character by character.                                                    *)
NoPath == <<>>

PathRoot == <<"/">>
PathLogin == <<"/", "l", "o", "g", "i", "n">>
PathRegister == <<"/", "r", "e", "g", "i", "s", "t", "e", "r">>
PathHealth == <<"/", "h", "e", "a", "l", "t", "h">>
PathFaculty == <<"/", "f", "a", "c", "u", "l", "t", "y">>
PathSecurity == <<"/", "s", "e", "c", "u", "r", "i", "t", "y">>
PathHod == <<"/", "h", "o", "d">>
PathSecurityIncharge ==
  <<"/", "s", "e", "c", "u", "r", "i", "t", "y", "i", "n", "c", "h", "a",
    "r", "g", "e">>
PathFacultyKeys ==
  <<"/", "f", "a", "c", "u", "l", "t", "y", "/", "k", "e", "y", "s">>
PathSecurityScan ==
  <<"/", "s", "e", "c", "u", "r", "i", "t", "y", "/", "s", "c", "a", "n">>
PathSecurityInchargeDashboard ==
  <<"/", "s", "e", "c", "u", "r", "i", "t", "y", "i", "n", "c", "h", "a",
    "r", "g", "e", "/", "d", "a", "s", "h", "b", "o", "a", "r", "d">>
PathAdmin == <<"/", "a", "d", "m", "i", "n">>
PathLoginSlash == <<"/", "l", "o", "g", "i", "n", "/">>
PathHealthz == <<"/", "h", "e", "a", "l", "t", "h", "z">>

Roles == {"faculty", "security", "hod", "security_incharge", "admin"}

ROLE_HIERARCHY ==
  [r \in Roles |->
     CASE r = "faculty" -> 1
       [] r = "security" -> 2
       [] r = "hod" -> 3
       [] r = "security_incharge" -> 4
       [] r = "admin" -> 5]

(* ROUTE_ACCESS, in the order Object.entries walks it. *)
ROUTE_ACCESS ==
  << [pattern |-> PathFaculty, roles |-> {"faculty", "hod"}],
     [pattern |-> PathSecurity, roles |-> {"security", "security_incharge"}],
     [pattern |-> PathHod, roles |-> {"hod"}],
     [pattern |-> PathSecurityIncharge, roles |-> {"security_incharge"}] >>

publicRoutes == {PathRoot, PathLogin, PathRegister, PathHealth}

(* The paths the checks are asked about. *)
RoutePaths ==
  {NoPath, PathRoot, PathLogin, PathRegister, PathHealth, PathFaculty,
   PathSecurity, PathHod, PathSecurityIncharge, PathFacultyKeys,
   PathSecurityScan, PathSecurityInchargeDashboard, PathAdmin,
   PathLoginSlash, PathHealthz}

(* String.prototype.startsWith *)
startsWith(str, prefix) ==
  /\ Len(prefix) <= Len(str)
  /\ SubSeq(str, 1, Len(prefix)) = prefix

(* ROLE_HIERARCHY[role] || 0 *)
getRoleLevel(role) ==
  IF role \in DOMAIN ROLE_HIERARCHY THEN ROLE_HIERARCHY[role] ELSE 0

(* hasRoleLevel with a strict comparison. *)
hasRoleLevelStrict(userRole, requiredRole) ==
  IF userRole = NoText \/ requiredRole = NoText THEN FALSE
  ELSE getRoleLevel(userRole) > getRoleLevel(requiredRole)

hasRoleLevel(userRole, requiredRole) ==
  IF userRole = NoText \/ requiredRole = NoText THEN FALSE
  ELSE getRoleLevel(userRole) >= getRoleLevel(requiredRole)

(* The entries of ROUTE_ACCESS whose pattern the route starts with. *)
matchingPatterns(route) ==
  {i \in 1..Len(ROUTE_ACCESS) : startsWith(route, ROUTE_ACCESS[i].pattern)}

(* canAccessRoute with the public routes matched as prefixes. *)
canAccessRoutePublicByPrefix(role, route) ==
  IF role = NoText \/ route = NoPath THEN FALSE
  ELSE IF matchingPatterns(route) # {}
       THEN LET first == CHOOSE i \in matchingPatterns(route) :
                           \A j \in matchingPatterns(route) : i <= j
            IN role \in ROUTE_ACCESS[first].roles
       ELSE \E publicRoute \in publicRoutes : startsWith(route, publicRoute)

(* canAccessRoute: the loop returns at the first entry whose pattern the       *)
(* route starts with; with no such entry the route must be a public one.      *)
canAccessRoute(role, route) ==
  IF role = NoText \/ route = NoPath THEN FALSE
  ELSE IF matchingPatterns(route) # {}
       THEN LET first == CHOOSE i \in matchingPatterns(route) :
                           \A j \in matchingPatterns(route) : i <= j
            IN role \in ROUTE_ACCESS[first].roles
       ELSE \E publicRoute \in publicRoutes : route = publicRoute

(* canManageUser without the three overrides. *)
canManageUserByLevelOnly(managerRole, targetRole) ==
  IF managerRole = NoText \/ targetRole = NoText THEN FALSE
  ELSE getRoleLevel(managerRole) > getRoleLevel(targetRole)

canManageUser(managerRole, targetRole) ==
  IF managerRole = NoText \/ targetRole = NoText THEN FALSE
  ELSE IF managerRole = "admin" THEN TRUE
  ELSE IF managerRole = "security_incharge" /\ targetRole = "security"
       THEN TRUE
  ELSE IF managerRole = "hod" /\ targetRole = "faculty" THEN TRUE
  ELSE getRoleLevel(managerRole) > getRoleLevel(targetRole)

NoAnswer == [op |-> "none", val |-> FALSE]

RbacIdle ==
  /\ rrole = NoText
  /\ rtarget = NoText
  /\ rpath = NoPath
  /\ rans = NoAnswer

(* The arguments of the next check. *)
RbacInputs ==
  /\ rrole \in Roles
  /\ rtarget \in Roles
  /\ rpath \in RoutePaths
  /\ rans = NoAnswer

CheckRoleLevel ==
  /\ rans.op = "none"
  /\ rans' = [op |-> "hasRoleLevel", val |-> hasRoleLevel(rrole, rtarget)]
  /\ UNCHANGED <<rrole, rtarget, rpath>>
  /\ UNCHANGED <<now, keyVars, otpVars, loginVars, tsKeyVars, authVars,
               limitVars>>

CheckRoute ==
  /\ rans.op = "none"
  /\ rans' = [op |-> "canAccessRoute", val |-> canAccessRoute(rrole, rpath)]
  /\ UNCHANGED <<rrole, rtarget, rpath>>
  /\ UNCHANGED <<now, keyVars, otpVars, loginVars, tsKeyVars, authVars,
               limitVars>>

CheckManage ==
  /\ rans.op = "none"
  /\ rans' = [op |-> "canManageUser", val |-> canManageUser(rrole, rtarget)]
  /\ UNCHANGED <<rrole, rtarget, rpath>>
  /\ UNCHANGED <<now, keyVars, otpVars, loginVars, tsKeyVars, authVars,
               limitVars>>

RbacNextRequest ==
  /\ rans.op # "none"
  /\ rrole' \in Roles
  /\ rtarget' \in Roles
  /\ rpath' \in RoutePaths
  /\ rans' = NoAnswer
  /\ UNCHANGED <<now, keyVars, otpVars, loginVars, tsKeyVars, authVars,
               limitVars>>

----------------------------------------------------------------------------
(* Session tokens: generateToken, the verifyToken middleware of                *)
(* middleware/auth.js and the authMiddleware of the TypeScript server         *)

TokenTTL == 10080
TokenTickSteps == {5040}

(* The roles the User schema allows. *)
UserRoles == {"faculty", "hod", "security", "security_incharge"}

NewIdent == [exists |-> TRUE, isActive |-> TRUE, role |-> "faculty"]

(* The contents the stored User document can have. *)
IdentStates ==
  [exists : BOOLEAN, isActive : BOOLEAN, role : UserRoles]

NoToken == [kind |-> "none", role |-> NoText, exp |-> NoDate]

NoVerdict == [op |-> "none", code |-> "none", role |-> NoText]

(* jwt.sign({ userId, email, role, iat }, JWT_SECRET, { expiresIn: '7d' }) *)
generateToken(role, t) ==
  [kind |-> "signed", role |-> role, exp |-> t + TokenTTL]

(* A token whose signature was not made with JWT_SECRET. *)
ForgedTokens(t) ==
  {[kind |-> "forged", role |-> r, exp |-> t + TokenTTL] : r \in UserRoles}

(* jwt.verify(token, JWT_SECRET): the error it throws, if any. *)
jwtVerify(token, t) ==
  IF token.kind # "signed" THEN "JsonWebTokenError"
  ELSE IF t >= token.exp THEN "TokenExpiredError"
  ELSE "ok"

(* verifyToken of middleware/auth.js: the status code it answers with, or     *)
(* next() with req.user = the stored user.                                    *)
verifyToken(token, t, stored) ==
  IF token.kind = "none" THEN [code |-> "NO_TOKEN", role |-> NoText]
  ELSE IF jwtVerify(token, t) = "TokenExpiredError"
       THEN [code |-> "TOKEN_EXPIRED", role |-> NoText]
  ELSE IF jwtVerify(token, t) # "ok"
       THEN [code |-> "INVALID_TOKEN", role |-> NoText]
  ELSE IF ~stored.exists THEN [code |-> "USER_NOT_FOUND", role |-> NoText]
  ELSE IF ~stored.isActive
       THEN [code |-> "ACCOUNT_DEACTIVATED", role |-> NoText]
  ELSE [code |-> "next", role |-> stored.role]

(* authMiddleware of the TypeScript server: next() with req.user.role =       *)
(* decoded.role.                                                              *)
authMiddleware(token, t, stored) ==
  IF token.kind = "none" THEN [code |-> "NO_TOKEN", role |-> NoText]
  ELSE IF jwtVerify(token, t) = "TokenExpiredError"
       THEN [code |-> "TOKEN_EXPIRED", role |-> NoText]
  ELSE IF jwtVerify(token, t) # "ok"
       THEN [code |-> "INVALID_TOKEN", role |-> NoText]
  ELSE IF ~stored.exists THEN [code |-> "USER_NOT_FOUND", role |-> NoText]
  ELSE [code |-> "next", role |-> token.role]

(* A login has succeeded: generateToken(user._id, user.email, user.role). *)
IssueToken ==
  /\ ident.exists
  /\ ident.isActive
  /\ tok' = generateToken(ident.role, now)
  /\ vans' = NoVerdict
  /\ UNCHANGED <<ident, nodeEnv, gans>>
  /\ UNCHANGED <<now, keyVars, otpVars, loginVars, tsKeyVars, rbacVars,
                 limitVars>>

(* The next request comes with a token signed by someone else, or with none. *)
PresentOtherToken ==
  /\ tok' \in ForgedTokens(now) \cup {NoToken}
  /\ tok' # tok
  /\ vans' = NoVerdict
  /\ UNCHANGED <<ident, nodeEnv, gans>>
  /\ UNCHANGED <<now, keyVars, otpVars, loginVars, tsKeyVars, rbacVars,
                 limitVars>>

VerifyToken ==
  /\ vans.op = "none"
  /\ vans' = [op |-> "verifyToken",
              code |-> verifyToken(tok, now, ident).code,
              role |-> verifyToken(tok, now, ident).role]
  /\ UNCHANGED <<ident, tok, nodeEnv, gans>>
  /\ UNCHANGED <<now, keyVars, otpVars, loginVars, tsKeyVars, rbacVars,
                 limitVars>>

AuthMiddleware ==
  /\ vans.op = "none"
  /\ vans' = [op |-> "authMiddleware",
              code |-> authMiddleware(tok, now, ident).code,
              role |-> authMiddleware(tok, now, ident).role]
  /\ UNCHANGED <<ident, tok, nodeEnv, gans>>
  /\ UNCHANGED <<now, keyVars, otpVars, loginVars, tsKeyVars, rbacVars,
                 limitVars>>

(* PUT /api/users/:id/role: user.role = role; user.save(). *)
UpdateUserRole ==
  /\ ident.exists
  /\ \E r \in UserRoles : r # ident.role /\ ident' = [ident EXCEPT !.role = r]
  /\ vans' = NoVerdict
  /\ UNCHANGED <<tok, nodeEnv, gans>>
  /\ UNCHANGED <<now, keyVars, otpVars, loginVars, tsKeyVars, rbacVars,
                 limitVars>>

(* PUT /api/users/:id/status: user.isActive = isActive; user.save(). *)
UpdateUserStatus ==
  /\ ident.exists
  /\ ident' = [ident EXCEPT !.isActive = ~@]
  /\ vans' = NoVerdict
  /\ UNCHANGED <<tok, nodeEnv, gans>>
  /\ UNCHANGED <<now, keyVars, otpVars, loginVars, tsKeyVars, rbacVars,
                 limitVars>>

(* DELETE /api/users/:id of the TypeScript server: User.findByIdAndDelete. *)
DeleteUser ==
  /\ ident.exists
  /\ ident' = [ident EXCEPT !.exists = FALSE]
  /\ vans' = NoVerdict
  /\ UNCHANGED <<tok, nodeEnv, gans>>
  /\ UNCHANGED <<now, keyVars, otpVars, loginVars, tsKeyVars, rbacVars,
                 limitVars>>

TokenTick ==
  /\ \E d \in TokenTickSteps : Tick(d, MaxTokenTime)
  /\ vans' = NoVerdict
  /\ UNCHANGED <<ident, tok, nodeEnv, gans>>
  /\ UNCHANGED <<keyVars, otpVars, loginVars, tsKeyVars, rbacVars, limitVars>>

(* The role gates of middleware/auth.js *)

NodeEnvs == {"production", "development"}

(* The arguments the routes give requireRole and requireMinRole. *)
RequiredRoleLists == {{"security", "security_incharge"}, {"hod"}}
MinRoles == {"security", "hod", "security_incharge"}

roleHierarchy ==
  [r \in UserRoles |->
     CASE r = "security_incharge" -> 4
       [] r = "hod" -> 3
       [] r = "security" -> 2
       [] r = "faculty" -> 1]

(* hasRoleLevel of middleware/auth.js: (roleHierarchy[role] || 0) compared. *)
authHasRoleLevel(userRole, requiredRole) ==
  LET userLevel ==
        IF userRole \in DOMAIN roleHierarchy THEN roleHierarchy[userRole] ELSE 0
      requiredLevel ==
        IF requiredRole \in DOMAIN roleHierarchy
        THEN roleHierarchy[requiredRole] ELSE 0
  IN userLevel >= requiredLevel

(* hasRoleLevel of middleware/auth.js asked about a pair of roles. *)
CheckAuthRoleLevel ==
  /\ rans.op = "none"
  /\ rans' = [op |-> "authHasRoleLevel",
              val |-> authHasRoleLevel(rrole, rtarget)]
  /\ UNCHANGED <<rrole, rtarget, rpath>>
  /\ UNCHANGED <<now, keyVars, otpVars, loginVars, tsKeyVars, authVars,
               limitVars>>

(* requireRole(roles) on a request whose req.user has the role userRole       *)
(* (NoText: no req.user): the code it answers with, or next().                *)
requireRole(roles, userRole, env) ==
  IF userRole = NoText THEN "AUTH_REQUIRED"
  ELSE IF env = "development" THEN "next"
  ELSE IF userRole \notin roles THEN "INSUFFICIENT_PERMISSIONS"
  ELSE "next"

(* requireMinRole(minRole), likewise. *)
requireMinRole(minRole, userRole, env) ==
  IF userRole = NoText THEN "AUTH_REQUIRED"
  ELSE IF env = "development" THEN "next"
  ELSE IF ~authHasRoleLevel(userRole, minRole) THEN "INSUFFICIENT_PERMISSIONS"
  ELSE "next"

NoGate ==
  [op |-> "none", role |-> NoText, roles |-> {}, min |-> NoText,
   code |-> "none"]

(* A route behind verifyToken and requireRole(roles). *)
RequireRole ==
  /\ vans.op = "verifyToken"
  /\ vans.code = "next"
  /\ gans.op = "none"
  /\ \E roles \in RequiredRoleLists :
       gans' = [op |-> "requireRole", role |-> vans.role, roles |-> roles,
                min |-> NoText,
                code |-> requireRole(roles, vans.role, nodeEnv)]
  /\ UNCHANGED <<ident, tok, vans, nodeEnv>>
  /\ UNCHANGED <<now, keyVars, otpVars, loginVars, tsKeyVars, rbacVars,
                 limitVars>>

(* A route behind verifyToken and requireMinRole(minRole). *)
RequireMinRole ==
  /\ vans.op = "verifyToken"
  /\ vans.code = "next"
  /\ gans.op = "none"
  /\ \E minRole \in MinRoles :
       gans' = [op |-> "requireMinRole", role |-> vans.role, roles |-> {},
                min |-> minRole,
                code |-> requireMinRole(minRole, vans.role, nodeEnv)]
  /\ UNCHANGED <<ident, tok, vans, nodeEnv>>
  /\ UNCHANGED <<now, keyVars, otpVars, loginVars, tsKeyVars, rbacVars,
                 limitVars>>

(* The request has been answered; the next one arrives. *)
GateNextRequest ==
  /\ gans.op # "none"
  /\ gans' = NoGate
  /\ vans' = NoVerdict
  /\ UNCHANGED <<ident, tok, nodeEnv>>
  /\ UNCHANGED <<now, keyVars, otpVars, loginVars, tsKeyVars, rbacVars,
                 limitVars>>


AuthIdle ==
  /\ ident = NewIdent
  /\ tok = NoToken
  /\ vans = NoVerdict
  /\ nodeEnv = "production"
  /\ gans = NoGate

----------------------------------------------------------------------------
(* authLimiter of routes/auth.js *)

(* max: process.env.NODE_ENV === 'development' ? 100 : 10, counted over        *)
(* windowMs of 15 minutes; the runs followed here end inside the first        *)
(* window, so the count is never reset.                                       *)
authLimiterMax(env) == IF env = "development" THEN 100 ELSE 10

(* An address outside the college domain. *)
OutsideEmail == "eve@elsewhere"

(* RoleService.isValidEmail: /^[^\s@]+@vnrvjiet\.in$/; the emails of Emails    *)
(* stand for addresses of that domain.                                        *)
isValidEmail(email) == email \in Emails

LimitIdle == ahits = 0

(* POST /simple-auth up to the OTP: authLimiter counts the request and         *)
(* refuses it above max; an address outside the domain is refused; otherwise  *)
(* (the user found or created) createOTP(email, 'login') is next.             *)
SimpleAuth(h, email) ==
  /\ opc[h] = "idle"
  /\ ahits <= authLimiterMax(nodeEnv)
  /\ ahits' = ahits + 1
  /\ oreq' = [oreq EXCEPT ![h] = [op |-> "simple-auth", email |-> email,
                                  purpose |-> "login", otp |-> NoText,
                                  at |-> now]]
  /\ IF ahits + 1 > authLimiterMax(nodeEnv)
     THEN OtpFinish(h, "AUTH_RATE_LIMIT")
     ELSE IF ~isValidEmail(email)
     THEN OtpFinish(h, "INVALID_EMAIL_DOMAIN")
     ELSE /\ Len(otps) < MaxRateOtps
          /\ opc' = [opc EXCEPT ![h] = "allowed"]
          /\ ores' = [ores EXCEPT ![h] = "none"]
  /\ UNCHANGED <<otps, accepted, wrong, odoc, now, onum>>

(* One step of a handler serving POST /simple-auth. *)
SimpleAuthStep(h) ==
  /\ \/ \E e \in Emails \cup {OutsideEmail} : SimpleAuth(h, e)
     \/ /\ \/ RequestCreateOTP(h)
           \/ InsertOTP(h)
           \/ OtpReturn(h)
        /\ UNCHANGED limitVars
  /\ UNCHANGED <<keyVars, loginVars, tsKeyVars, rbacVars, authVars>>

----------------------------------------------------------------------------
(* Specifications *)

(* Keys are imported in any status; pre('save') refuses an assigned key        *)
(* without a holder.  No OTP has been requested yet.                          *)
Init ==
  /\ now = 0
  /\ KeyInit(KeyStatuses \ {"assigned"})
  /\ OtpInit
  /\ LoginInit
  /\ TsKeyInit({NewTsKey("available", NoDate)})
  /\ RbacIdle
  /\ AuthIdle
  /\ LimitIdle

(* The OTP manager does not touch the keys: one key, as the schema defaults    *)
(* make it.                                                                   *)
OtpSpecInit ==
  /\ now = 0
  /\ KeyInit({"available"})
  /\ OtpInit
  /\ LoginInit
  /\ TsKeyInit({NewTsKey("available", NoDate)})
  /\ RbacIdle
  /\ AuthIdle
  /\ LimitIdle

KeyStep(h) ==
  /\ \/ \E o \in KeyOps : KeyLoad(h, o)
     \/ AssignTo(h)
     \/ ReturnKey(h)
     \/ MarkAsMaintenance(h)
     \/ MarkAsAvailable(h)
     \/ KeyRespond(h)
  /\ UNCHANGED <<otpVars, loginVars, tsKeyVars, rbacVars,
               authVars, limitVars>>

(* Key handlers running concurrently. *)
KeyNext ==
  \/ \E h \in Handlers : KeyStep(h)
  \/ KeyTick

SpecKey == Init /\ [][KeyNext]_vars

(* One key request at a time. *)
KeySeqNext ==
  \/ KeyStep("h1")
  \/ KeyTick

SpecKeySeq == Init /\ [][KeySeqNext]_vars

(* The keys as the seed data import them: available, with the allowedRoles of *)
(* their category.                                                            *)
AccessInit ==
  /\ now = 0
  /\ KeyInitWith({[NewKey("available", m) EXCEPT !.allowedRoles = r] :
                    m \in MaxAllowedTimes, r \in SeedAllowedRoles})
  /\ OtpInit
  /\ LoginInit
  /\ TsKeyInit({NewTsKey("available", NoDate)})
  /\ RbacIdle
  /\ AuthIdle
  /\ LimitIdle

SpecAccess == AccessInit /\ [][KeySeqNext]_vars

(* OTP requests served concurrently. *)
OtpNext ==
  \/ \E h \in Handlers : OtpStep(h, {"login"}, TRUE)
  \/ OtpTick

SpecOtp == OtpSpecInit /\ [][OtpNext]_vars

(* One challenge has been created for alice@x and login, with the code       *)
(* 111111; nothing has been submitted against it yet.                        *)
GuessInit ==
  /\ now = 0
  /\ KeyInit({"available"})
  /\ otps = <<NewOTP("alice@x", "111111", "login", 0)>>
  /\ accepted = <<0>>
  /\ wrong = <<0>>
  /\ opc = [h \in Handlers |-> "idle"]
  /\ oreq = [h \in Handlers |-> NoOtpReq]
  /\ odoc = [h \in Handlers |-> NoOtpDoc]
  /\ ores = [h \in Handlers |-> "none"]
  /\ onum = 0
  /\ LoginInit
  /\ TsKeyInit({NewTsKey("available", NoDate)})
  /\ RbacIdle
  /\ AuthIdle
  /\ LimitIdle

(* One step of a handler serving verifyOTP calls on that challenge. *)
GuessStep(h) ==
  /\ \/ \E c \in Codes : VerifyFind(h, "alice@x", "login", c, FALSE)
     \/ VerifyLatest(h)
     \/ VerifyIncrement(h)
     \/ VerifyAccept(h)
     \/ OtpReturn(h)
  /\ UNCHANGED <<keyVars, loginVars, tsKeyVars, rbacVars,
               authVars, limitVars>>

(* verifyOTP calls on one challenge, served concurrently. *)
GuessNext == \E h \in Handlers : GuessStep(h)

SpecGuess == GuessInit /\ [][GuessNext]_vars

(* One step of a handler serving POST /login. *)
LoginAttemptStep(h) ==
  /\ \/ \E e \in Emails, c \in Codes : LoginLoad(h, e, c)
     \/ LoginVerify(h)
     \/ LoginVerifying(h)
     \/ LoginFailed(h)
     \/ LoginSucceeded(h)
     \/ LoginRespond(h)
  /\ UNCHANGED <<keyVars, tsKeyVars, rbacVars,
               authVars, limitVars>>

(* Logins of one identity served concurrently, after /simple-auth has made    *)
(* the user and its challenge, within one instant of the clock.               *)
LoginNext == \E h \in Handlers : LoginAttemptStep(h)

SpecLogin == GuessInit /\ [][LoginNext]_vars

(* One OTP request at a time. *)
OtpSeqNext ==
  \/ OtpStep("h1", Purposes, FALSE)
  \/ OtpTick

SpecOtpSeq == OtpSpecInit /\ [][OtpSeqNext]_vars

(* Key handlers running concurrently, the delete route among them. *)
KeyDeleteNext ==
  \/ \E h \in Handlers :
       \/ KeyStep(h)
       \/ /\ \/ KeyLoad(h, DeleteOp)
             \/ KeyDelete(h)
          /\ UNCHANGED <<otpVars, loginVars, tsKeyVars, rbacVars,
               authVars, limitVars>>
  \/ KeyTick

SpecKeyDelete == OtpSpecInit /\ [][KeyDeleteNext]_vars

(* Key requests one at a time, and saves of a Key.ts document. *)
OverdueInit ==
  /\ now = 0
  /\ KeyInit({"available"})
  /\ OtpInit
  /\ LoginInit
  /\ TsKeyInit(TsSeedKeys)
  /\ RbacIdle
  /\ AuthIdle
  /\ LimitIdle

OverdueNext ==
  \/ KeyStep("h1")
  \/ TsKeySave
  \/ KeyTick

SpecOverdue == OverdueInit /\ [][OverdueNext]_vars

(* Access checks on every role and path. *)
RbacInit ==
  /\ now = 0
  /\ KeyInit({"available"})
  /\ OtpInit
  /\ LoginInit
  /\ TsKeyInit({NewTsKey("available", NoDate)})
  /\ RbacInputs
  /\ AuthIdle
  /\ LimitIdle

RbacNext ==
  \/ CheckRoleLevel
  \/ CheckRoute
  \/ CheckManage
  \/ CheckAuthRoleLevel
  \/ RbacNextRequest

SpecRbac == RbacInit /\ [][RbacNext]_vars

(* OTP requests through the rate check, one request at a time. *)
RateNext ==
  \/ RequestOtpStep("h1")
  \/ RateTick

SpecRate == OtpSpecInit /\ [][RateNext]_vars

(* OTP requests, verifications, invalidations and the maintenance cleanup,    *)
(* one call at a time and all within one rate window.                         *)
MaintenanceNext == MaintenanceStep("h1")

SpecMaintenance == OtpSpecInit /\ [][MaintenanceNext]_vars

(* Simple-auth requests, one at a time. *)
SimpleAuthNext ==
  \/ SimpleAuthStep("h1")
  \/ RateTick

SpecSimpleAuth == OtpSpecInit /\ [][SimpleAuthNext]_vars

(* Requests with session tokens, and the administration of the identity. *)
TokenInit ==
  /\ now = 0
  /\ KeyInit({"available"})
  /\ OtpInit
  /\ LoginInit
  /\ TsKeyInit({NewTsKey("available", NoDate)})
  /\ RbacIdle
  /\ ident \in {i \in IdentStates : i.exists /\ i.isActive}
  /\ tok = NoToken
  /\ vans = NoVerdict
  /\ nodeEnv = "production"
  /\ gans = NoGate
  /\ LimitIdle

TokenNext ==
  \/ IssueToken
  \/ PresentOtherToken
  \/ VerifyToken
  \/ AuthMiddleware
  \/ UpdateUserRole
  \/ UpdateUserStatus
  \/ DeleteUser
  \/ TokenTick

SpecToken == TokenInit /\ [][TokenNext]_vars

(* Requests to the role-gated routes, under either NODE_ENV. *)
GateInit ==
  /\ now = 0
  /\ KeyInit({"available"})
  /\ OtpInit
  /\ LoginInit
  /\ TsKeyInit({NewTsKey("available", NoDate)})
  /\ RbacIdle
  /\ ident \in {i \in IdentStates : i.exists /\ i.isActive}
  /\ tok = NoToken
  /\ vans = NoVerdict
  /\ nodeEnv \in NodeEnvs
  /\ gans = NoGate
  /\ LimitIdle

GateNext ==
  \/ IssueToken
  \/ VerifyToken
  \/ RequireRole
  \/ RequireMinRole
  \/ GateNextRequest
  \/ UpdateUserRole

SpecGate == GateInit /\ [][GateNext]_vars

(* Logins and OTP requests of the identity, one request at a time. *)
LoginSeqNext ==
  \/ LoginStep("h1")
  \/ LoginTick

SpecLoginSeq == OtpSpecInit /\ [][LoginSeqNext]_vars

(* The same, for an identity that is registered, deactivated or unknown. *)
LoginPathsInit ==
  /\ now = 0
  /\ KeyInit({"available"})
  /\ OtpInit
  /\ LoginInitWith({NewUser, DeactivatedUser, MissingUser})
  /\ TsKeyInit({NewTsKey("available", NoDate)})
  /\ RbacIdle
  /\ AuthIdle
  /\ LimitIdle

SpecLoginPaths == LoginPathsInit /\ [][LoginSeqNext]_vars

----------------------------------------------------------------------------
(* Key lifecycle: claims *)

KeyConcurrentAssigns(g, h) ==
  /\ g # h
  /\ kpc[g] = "done" /\ kpc[h] = "done"
  /\ kop[g].name = "assign" /\ kop[h].name = "assign"
  /\ kloadver[g] = kloadver[h]
  /\ kdoc[g].currentStatus = "available"
  /\ kdoc[h].currentStatus = "available"

(* C1: two assign calls that loaded the same available key never both       *)
(* succeed: one wins and the other gets CONFLICT.                            *)
C1_SingleWinner ==
  \A g, h \in Handlers :
    KeyConcurrentAssigns(g, h) => ~(kres[g] = "OK" /\ kres[h] = "OK")

(* C2: in every stored state the key is assigned exactly when its          *)
(* assignment names a holder, whatever the interleaving of the handlers.    *)
C2_StoredKeyInvariant ==
  (key.currentStatus = "assigned") <=> (key.currentAssignment.assignedTo # NoUser)

(* C10: an assign that finds the stored key not available answers CONFLICT  *)
(* and leaves every stored field of the key as it was.                      *)
C10_AssignRefusedLeavesKey ==
  [][\A h \in Handlers :
       (/\ kpc[h] = "loaded"
        /\ kop[h].name = "assign"
        /\ kpc'[h] = "done"
        /\ key.currentStatus # "available")
       => (kres'[h] = "CONFLICT" /\ key' = key)]_vars

C10_Witness ==
  /\ kpc["h1"] = "done"
  /\ kop["h1"].name = "assign"
  /\ kres["h1"] = "CONFLICT"
  /\ key.currentStatus = "assigned"
  /\ key.currentAssignment.assignedTo # kop["h1"].user

(* C11: with the calls served one at a time, the stored key is assigned       *)
(* exactly when its assignment names a holder, and in every other status      *)
(* assignedTo, assignedAt, expectedReturnAt and purpose are all cleared.      *)
C11_SequentialKeyInvariant ==
  /\ (key.currentStatus = "assigned")
        <=> (key.currentAssignment.assignedTo # NoUser)
  /\ key.currentStatus # "assigned" => key.currentAssignment = EmptyAssignment

(* A key that was assigned has gone to maintenance with its assignment gone. *)
C11_Witness ==
  /\ kpc["h1"] = "done"
  /\ kres["h1"] = "OK"
  /\ kop["h1"].name = "maintenance"
  /\ kdoc["h1"].currentStatus = "assigned"
  /\ kdoc["h1"].currentAssignment.assignedTo # NoUser
  /\ key.currentStatus = "maintenance"
  /\ key.currentAssignment = EmptyAssignment

(* Handler h's method runs in this step. *)
KeyMethodRuns(h, name) ==
  /\ kpc[h] = "loaded"
  /\ kop[h].name = name
  /\ kpc'[h] = "done"

(* C12: a return on a key that is not assigned answers CONFLICT and changes   *)
(* nothing; on an assigned key it stores status available with the whole      *)
(* assignment cleared; an assign on the available key then succeeds, and the  *)
(* stored assignment holds the data of that call alone.                       *)
C12_ReturnThenAssign ==
  [][\A h \in Handlers :
       /\ KeyMethodRuns(h, "return")
          => IF key.currentStatus = "assigned"
             THEN /\ kres'[h] = "OK"
                  /\ key'.currentStatus = "available"
                  /\ key'.currentAssignment = EmptyAssignment
             ELSE /\ kres'[h] = "CONFLICT"
                  /\ key' = key
       /\ (KeyMethodRuns(h, "assign") /\ key.currentStatus = "available")
          => /\ kres'[h] = "OK"
             /\ key'.currentStatus = "assigned"
             /\ key'.currentAssignment.assignedTo = kop[h].user
             /\ key'.currentAssignment.assignedAt = now
             /\ key'.currentAssignment.expectedReturnAt
                  \in {now + karg'[h].durationMinutes,
                       now + key.maxAllowedTime}
             /\ key'.currentAssignment.purpose
                  \in (AssignPurposes \ {NoText}) \cup {"General use"}]_vars

(* assign; return; assign: the key went back from one holder and is now       *)
(* assigned to the other.                                                     *)
C12_Witness ==
  /\ kpc["h1"] = "done"
  /\ kop["h1"].name = "assign"
  /\ kres["h1"] = "OK"
  /\ kreturned # NoUser
  /\ kreturned # kop["h1"].user
  /\ kdoc["h1"].currentAssignment = EmptyAssignment
  /\ key.currentStatus = "assigned"
  /\ key.currentAssignment.assignedTo = kop["h1"].user

C14_MaintenanceFromAnyStatus ==
  [][\A h \in Handlers :
       KeyMethodRuns(h, "maintenance")
       => /\ kres'[h] = "OK"
          /\ key'.currentStatus = "maintenance"
          /\ key'.currentAssignment = EmptyAssignment]_vars

(* An assigned key was sent to maintenance at a later time: the holder is     *)
(* gone and the maintenance date is the time of the call.                     *)
C14_Witness ==
  /\ kpc["h1"] = "done"
  /\ kop["h1"].name = "maintenance"
  /\ kres["h1"] = "OK"
  /\ kdoc["h1"].currentStatus = "assigned"
  /\ kdoc["h1"].currentAssignment.assignedAt < now
  /\ key.currentStatus = "maintenance"
  /\ key.currentAssignment.assignedTo = NoUser
  /\ key.maintenanceInfo.lastMaintenance = now

(* The stored key is flagged lost or damaged. *)
KeyTerminal == key.currentStatus \in {"lost", "damaged"}

(* C15 as claimed: the status of a lost or damaged key changes only by        *)
(* markAsAvailable, and then to available.                                    *)
C15_OnlyAvailableLeavesTerminal ==
  [][(KeyTerminal /\ key'.currentStatus # key.currentStatus)
       => /\ \E h \in Handlers : KeyMethodRuns(h, "available")
          /\ key'.currentStatus = "available"]_vars

(* C15 as amended: the status of a lost or damaged key changes only by        *)
(* markAsAvailable, to available, or by markAsMaintenance, to maintenance;    *)
(* markAsAvailable on such a key does set it available; assignTo and          *)
(* returnKey are refused and leave the key as it is.                          *)
C15_AvailableOrMaintenanceLeavesTerminal ==
  [][/\ (KeyTerminal /\ key'.currentStatus # key.currentStatus)
          => \/ /\ \E h \in Handlers : KeyMethodRuns(h, "available")
                /\ key'.currentStatus = "available"
             \/ /\ \E h \in Handlers : KeyMethodRuns(h, "maintenance")
                /\ key'.currentStatus = "maintenance"
     /\ \A h \in Handlers :
          /\ (KeyTerminal /\ KeyMethodRuns(h, "available"))
                => (kres'[h] = "OK" /\ key'.currentStatus = "available")
          /\ (KeyTerminal /\ (KeyMethodRuns(h, "assign")
                                \/ KeyMethodRuns(h, "return")))
                => (kres'[h] = "CONFLICT" /\ key' = key)]_vars

(* A lost key was set available again by markAsAvailable. *)
C15_Witness ==
  /\ kpc["h1"] = "done"
  /\ kop["h1"].name = "available"
  /\ kres["h1"] = "OK"
  /\ kdoc["h1"].currentStatus = "lost"
  /\ kver = 1
  /\ key.currentStatus = "available"

(* C16: isOverdue is true exactly when the key is assigned and the time is    *)
(* past expectedReturnAt, and no stored key ever carries a status overdue,    *)
(* a key saved after its due time included.                                   *)
C16_OverdueNeverStored ==
  /\ isOverdue(key, now)
       <=> (/\ key.currentStatus = "assigned"
            /\ now > key.currentAssignment.expectedReturnAt)
  /\ key.currentStatus # "overdue"
  /\ tkey.status # "overdue"

(* C17: no delete removes the record of a key whose stored status is          *)
(* assigned, a delete that runs concurrently with an assign included.         *)
C17_NeverDeletedWhileAssigned == kdel # "assigned"

(* C36: no stored key is assigned to a holder whose role its allowedRoles     *)
(* excludes: canBeAccessedBy(key, the holder's role) holds of every assigned  *)
(* key, and an assign that succeeded was for a holder it holds of.            *)
C36_AssignedOnlyToAllowedRole ==
  /\ isAssigned(key)
     => canBeAccessedBy(key, HolderRole[key.currentAssignment.assignedTo])
  /\ \A h \in Handlers :
       (kop[h].name = "assign" /\ kres[h] = "OK")
       => canBeAccessedBy(kdoc[h], HolderRole[kop[h].user])

(* C37: a successful assign stores assignedAt <= expectedReturnAt <=          *)
(* assignedAt + maxAllowedTime, whatever duration it was asked for (none,     *)
(* zero and negative included), so that the key is not overdue at the         *)
(* instant it is assigned.                                                    *)
C37_WindowWithinBounds ==
  [][\A h \in Handlers :
       (KeyMethodRuns(h, "assign") /\ kres'[h] = "OK")
       => /\ key'.currentAssignment.assignedAt
               <= key'.currentAssignment.expectedReturnAt
          /\ key'.currentAssignment.expectedReturnAt
               <= key'.currentAssignment.assignedAt + key'.maxAllowedTime
          /\ ~isOverdue(key', now')]_vars

----------------------------------------------------------------------------
(* OTP manager: claims *)

(* The non-used, non-expired challenges of a pair. *)
ActiveOTPs(email, purpose) ==
  {i \in OtpIds :
     /\ otps[i].email = email
     /\ otps[i].purpose = purpose
     /\ ~otps[i].isUsed
     /\ otps[i].expiresAt > now}

(* The pair has an active challenge whose attempts have reached 5. *)
Exhausted(email, purpose) ==
  \E i \in ActiveOTPs(email, purpose) : otps[i].attempts >= MaxOtpAttempts

(* Handler h's verifyOTP returns with this step. *)
VerifyReturns(h) ==
  /\ oreq[h].op = "verify"
  /\ opc[h] # "done"
  /\ opc'[h] = "done"

(* C3: with the requests served one at a time, a pair never has two          *)
(* non-used, non-expired challenges, and when createOTP returns every        *)
(* earlier challenge of its pair is used.                                    *)
C3_SingleActiveChallenge ==
  /\ \A e \in Emails, p \in Purposes : Cardinality(ActiveOTPs(e, p)) <= 1
  /\ \A h \in Handlers :
       (opc[h] = "done" /\ oreq[h].op = "create")
       => \A i \in 1..(Len(otps) - 1) :
            (otps[i].email = oreq[h].email /\ otps[i].purpose = oreq[h].purpose)
            => otps[i].isUsed

C3_Witness ==
  /\ opc["h1"] = "done"
  /\ oreq["h1"].op = "create"
  /\ Len(otps) = 2
  /\ otps[1].purpose = otps[2].purpose
  /\ otps[1].expiresAt > now
  /\ otps[1].isUsed
  /\ accepted[1] = 0
  /\ ~otps[2].isUsed

(* C4: with createOTP calls running concurrently, no two distinct challenges *)
(* of one pair are non-used and non-expired at the same time.                *)
C4_SingleActiveUnderConcurrency ==
  \A i, j \in OtpIds :
    (/\ i # j
     /\ otps[i].email = otps[j].email
     /\ otps[i].purpose = otps[j].purpose
     /\ otps[i].expiresAt > now
     /\ otps[j].expiresAt > now)
    => (otps[i].isUsed \/ otps[j].isUsed)

(* C5: once a challenge has 5 attempts, a verifyOTP for its pair returns     *)
(* OTP_EXPIRED: neither success nor an exception.                            *)
C5_ExhaustedReturnsExpired ==
  [][\A h \in Handlers :
       (VerifyReturns(h) /\ Exhausted(oreq[h].email, oreq[h].purpose))
       => ores'[h] = "OTP_EXPIRED"]_vars

(* The submitted code is that of a challenge of the pair, and every such     *)
(* challenge had expired before the call was made.                           *)
SubmittedAfterExpiry(h) ==
  LET same == {i \in OtpIds :
                 /\ otps[i].email = oreq[h].email
                 /\ otps[i].purpose = oreq[h].purpose
                 /\ otps[i].otp = oreq[h].otp}
  IN /\ same # {}
     /\ \A i \in same : otps[i].expiresAt < oreq[h].at

(* C6: a verifyOTP made after the challenge's expiresAt returns OTP_EXPIRED   *)
(* although the code is the challenge's, and marks no challenge used.         *)
C6_ExpiredReturnsExpired ==
  [][\A h \in Handlers :
       (VerifyReturns(h) /\ SubmittedAfterExpiry(h))
       => (/\ ores'[h] = "OTP_EXPIRED"
           /\ \A i \in OtpIds : otps'[i].isUsed = otps[i].isUsed)]_vars

(* C7: no challenge makes more than one verifyOTP call succeed. *)
C7_AcceptedAtMostOnce == \A i \in OtpIds : accepted[i] <= 1

(* Handler h's verifyOTP is about to count a wrong guess against a challenge *)
(* that has had n wrong guesses so far.                                      *)
WrongGuessAfter(h, n) ==
  /\ opc[h] = "increment"
  /\ odoc[h].attempts = n
  /\ otps[odoc[h].id].otp # oreq[h].otp

(* C32: a challenge has at most 5 wrong guesses counted against it, and a     *)
(* verifyOTP call that starts once 5 wrong calls on the challenge have        *)
(* completed does not match it, so the correct code is accepted only while    *)
(* fewer than 5 wrong calls have completed; the calls run concurrently.       *)
C32_AtMostFiveWrongGuesses ==
  /\ [](\A i \in OtpIds : wrong[i] <= MaxOtpAttempts)
  /\ [][\A h \in Handlers :
          (opc[h] = "idle" /\ opc'[h] = "found")
          => wrong[odoc'[h].id] < MaxOtpAttempts]_vars

(* C9 as claimed: the fifth wrong call reports the attempts-exhausted class  *)
(* and a call on the exhausted challenge does not succeed.                   *)
C9_FifthWrongReportsExhausted ==
  [][\A h \in Handlers :
       /\ (VerifyReturns(h) /\ WrongGuessAfter(h, MaxOtpAttempts - 1))
          => ores'[h] = "OTP_EXPIRED"
       /\ (VerifyReturns(h) /\ Exhausted(oreq[h].email, oreq[h].purpose))
          => ores'[h] # "success"]_vars

(* C9 as amended: each of the five wrong calls, the fifth included, reports  *)
(* INVALID_OTP and adds one to attempts, which the fifth brings to 5; a call *)
(* on the exhausted challenge, the correct code included, does not succeed.  *)
C9_FifthWrongReportsInvalid ==
  [][\A h \in Handlers :
       /\ \A n \in 0..(MaxOtpAttempts - 1) :
            (VerifyReturns(h) /\ WrongGuessAfter(h, n))
            => (/\ ores'[h] = "INVALID_OTP"
                /\ otps'[odoc[h].id].attempts = n + 1)
       /\ (VerifyReturns(h) /\ Exhausted(oreq[h].email, oreq[h].purpose))
          => ores'[h] # "success"]_vars

C9_Witness ==
  /\ opc["h1"] = "done"
  /\ oreq["h1"].op = "verify"
  /\ ores["h1"] # "success"
  /\ \E i \in ActiveOTPs(oreq["h1"].email, oreq["h1"].purpose) :
       /\ otps[i].attempts = MaxOtpAttempts
       /\ otps[i].otp = oreq["h1"].otp

----------------------------------------------------------------------------
(* Account guard: claims *)

(* A login request of handler h is taken up in this step. *)
LoginArrives(h) == lpc[h] = "idle" /\ lpc'[h] # "idle"

RecordsFailure(h) ==
  /\ lpc[h] = "verifying"
  /\ lpc'[h] = "done"
  /\ lres'[h] \notin {"success", "INTERNAL_ERROR"}

(* C23: a failure recorded after a previous lock has elapsed sets the failure *)
(* counter to 1 and clears the lock; any other failure increments the counter *)
(* by 1, sets lockUntil = now + 2 hours when the counter reaches 5, and       *)
(* leaves lockUntil alone below 5.                                            *)
C23_RecordFailure ==
  [][\A h \in Handlers :
       RecordsFailure(h)
       => IF user.lockUntil # NoDate /\ user.lockUntil < now
          THEN user'.loginAttempts = 1 /\ user'.lockUntil = NoDate
          ELSE /\ user'.loginAttempts = user.loginAttempts + 1
               /\ user'.loginAttempts = 5 => user'.lockUntil = now + 120
               /\ user'.loginAttempts < 5 => user'.lockUntil = user.lockUntil]_vars

(* A failure after five in a row and no success since has left the counter at *)
(* 1 and no lock: the lock of the fifth had elapsed.                          *)
C23_Witness ==
  /\ streak = MaxLoginAttempts
  /\ user.loginAttempts = 1
  /\ user.lockUntil = NoDate
  /\ lpc["h1"] = "done"
  /\ lres["h1"] = "INVALID_OTP"

(* A step in which the login of handler h succeeds. *)
LoginSucceeds(h) ==
  /\ lpc[h] = "verifying"
  /\ lpc'[h] = "done"
  /\ lres'[h] = "success"

(* C24: a successful login leaves the failure counter at 0 and no lock, and   *)
(* a lock is set only when 5 logins have failed since the last successful one *)
(* (or since the start).                                                      *)
C24_SuccessClearsFailures ==
  /\ [][\A h \in Handlers :
          LoginSucceeds(h)
          => user'.loginAttempts = 0 /\ user'.lockUntil = NoDate]_vars
  /\ [](user.lockUntil # NoDate => streak = 5)

(* A login has succeeded on an identity loaded with four failures recorded,   *)
(* and the stored counter is 0.                                               *)
C24_Witness ==
  /\ lpc["h1"] = "done"
  /\ lres["h1"] = "success"
  /\ ludoc["h1"].loginAttempts = 4
  /\ user.loginAttempts = 0
  /\ user.lockUntil = NoDate

(* A step in which handler h starts a login: the identity is loaded and the   *)
(* checks on it are made.                                                     *)
LoginStarts(h) == lpc[h] = "idle" /\ lpc'[h] # "idle"

(* A step in which the login of handler h ends after verifyOTP. *)
LoginEnds(h) == lpc[h] = "verifying" /\ lpc'[h] = "done"

(* verifyOTP of handler h was given the code of a challenge of the identity   *)
(* for the login purpose that was unused, below five attempts and not         *)
(* expired up to now.                                                         *)
GaveValidOtp(h) ==
  /\ odoc[h].id # NoId
  /\ otps[odoc[h].id].email = lreq[h].email
  /\ otps[odoc[h].id].otp = lreq[h].otp
  /\ otps[odoc[h].id].purpose = "login"
  /\ ~odoc[h].isUsed
  /\ odoc[h].attempts < 5
  /\ odoc[h].expiresAt >= now

(* C25: once the clock has passed lockUntil, with nothing done to the         *)
(* identity in between, a login is not refused as locked, and given a valid   *)
(* OTP it succeeds: a token is minted and the lock is cleared.                *)
C25_LockHealsItself ==
  [][\A h \in Handlers :
       /\ (LoginStarts(h) /\ user.lockUntil # NoDate /\ user.lockUntil < now)
          => lpc'[h] = "loaded"
       /\ (LoginEnds(h) /\ ludoc[h].lockUntil # NoDate /\ GaveValidOtp(h))
          => /\ lres'[h] = "success"
             /\ tokens' = tokens + 1
             /\ user'.lockUntil = NoDate]_vars

(* A login has succeeded on the identity loaded with a lock that had run out. *)
C25_Witness ==
  /\ lpc["h1"] = "done"
  /\ lres["h1"] = "success"
  /\ ludoc["h1"].lockUntil # NoDate
  /\ ludoc["h1"].lockUntil < now
  /\ tokens = 1
  /\ user.lockUntil = NoDate

(* The step leaves the failure counter and the lock of the identity, and the  *)
(* attempts counter and the used flag of every challenge, as they were.       *)
LeavesGuardAndChallenges ==
  /\ user'.loginAttempts = user.loginAttempts
  /\ user'.lockUntil = user.lockUntil
  /\ Len(otps') = Len(otps)
  /\ \A i \in OtpIds :
       /\ otps'[i].attempts = otps[i].attempts
       /\ otps'[i].isUsed = otps[i].isUsed

(* C35: a login rejected with ACCOUNT_LOCKED changes neither the identity's   *)
(* failure counter and lockUntil nor the attempts counter and used flag of    *)
(* any challenge: not in the step that loads the identity and rejects, and    *)
(* in no later step of a login that loaded the identity locked.               *)
C35_LockedLoginChangesNothing ==
  [][\A h \in Handlers :
       /\ (LoginStarts(h) /\ lres'[h] = "ACCOUNT_LOCKED")
          => LeavesGuardAndChallenges
       /\ (/\ lpc[h] # "idle"
           /\ ludoc[h].exists
           /\ ludoc[h].isActive
           /\ isLocked(ludoc[h], now))
          => LeavesGuardAndChallenges]_vars

(* A login with a wrong code was answered ACCOUNT_LOCKED while a challenge    *)
(* of the identity was live with attempts to spare: verifyOTP, had it run,    *)
(* would have counted the guess.                                              *)
C35_Witness ==
  /\ lpc["h1"] = "done"
  /\ lres["h1"] = "ACCOUNT_LOCKED"
  /\ user.loginAttempts >= MaxLoginAttempts
  /\ \E i \in findLatestOTP(lreq["h1"].email, "login", now) :
       /\ otps[i].otp # lreq["h1"].otp
       /\ otps[i].attempts < MaxOtpAttempts

(* C27: verifyOTP(identity, code, p2) leaves every challenge created for a    *)
(* different purpose as it was: it is not accepted, not marked used and its   *)
(* attempts are not incremented; the challenge verifyOTP works on has the     *)
(* purpose it was called with.                                                *)
C27_PurposeScoped ==
  /\ [][\A h \in Handlers :
          (oreq[h].op = "verify" /\ opc'[h] # opc[h])
          => \A i \in OtpIds :
               otps[i].purpose # oreq[h].purpose
               => otps'[i] = otps[i] /\ accepted'[i] = accepted[i]]_vars
  /\ [](\A h \in Handlers :
          (oreq[h].op = "verify" /\ odoc[h].id # NoId)
          => otps[odoc[h].id].purpose = oreq[h].purpose)

(* verifyOTP for registration was refused while a login challenge of the same *)
(* identity with the same code is valid, and that challenge is untouched.     *)
C27_Witness ==
  /\ opc["h1"] = "done"
  /\ oreq["h1"].op = "verify"
  /\ oreq["h1"].purpose = "registration"
  /\ ores["h1"] = "INVALID_OTP"
  /\ \E i \in OtpIds :
       /\ otps[i].email = oreq["h1"].email
       /\ otps[i].otp = oreq["h1"].otp
       /\ otps[i].purpose = "login"
       /\ isValid(otps[i], now)
       /\ otps[i].attempts = 0
       /\ accepted[i] = 0

(* The login of handler h has, in this order, found the identity, found it   *)
(* active and found no lock in force, and its verifyOTP(email, otp, 'login')  *)
(* has returned success.                                                      *)
PassedEveryCheck(h) ==
  /\ lpc[h] = "verifying"
  /\ ludoc[h].exists
  /\ ludoc[h].isActive
  /\ ludoc[h].lockUntil = NoDate \/ ludoc[h].lockUntil <= now
  /\ opc[h] = "done"
  /\ oreq[h].op = "verify"
  /\ oreq[h].email = lreq[h].email
  /\ oreq[h].otp = lreq[h].otp
  /\ oreq[h].purpose = "login"
  /\ ores[h] = "success"

(* C29: a token is minted only by a login request that has found the          *)
(* identity, found it active and not locked and then had verifyOTP for the    *)
(* login purpose succeed, in that order; verifyOTP is reached only after the  *)
(* three checks on the identity; a login that ends with an error mints no     *)
(* token.                                                                     *)
C29_TokenOnlyAfterAllChecks ==
  /\ [][tokens' # tokens
        => /\ tokens' = tokens + 1
           /\ \E h \in Handlers : PassedEveryCheck(h) /\ LoginEnds(h)]_vars
  /\ [][\A h \in Handlers :
          (lpc[h] # "done" /\ lpc'[h] = "done" /\ lres'[h] # "success")
          => tokens' = tokens]_vars
  /\ [](\A h \in Handlers :
          lpc[h] \in {"loaded", "verifying"}
          => /\ ludoc[h].exists
             /\ ludoc[h].isActive
             /\ ludoc[h].lockUntil = NoDate \/ ludoc[h].lockUntil <= now)

(* A login of an identity with no failure counted has minted the first token. *)
C29_Witness ==
  /\ tokens = 1
  /\ lpc["h1"] = "done"
  /\ lres["h1"] = "success"
  /\ ludoc["h1"].exists
  /\ ludoc["h1"].isActive
  /\ ludoc["h1"].loginAttempts = 0

(* C33: an identity whose failure counter is 5 or more has lockUntil set,      *)
(* failed logins of the identity being processed concurrently.               *)
C33_FiveFailuresAlwaysLocked ==
  user.loginAttempts >= MaxLoginAttempts => user.lockUntil # NoDate

----------------------------------------------------------------------------
(* OTP request rate: claims *)

(* The challenges created for the pair within the trailing five minutes of t, *)
(* whatever has become of them.                                               *)
CreatedInWindow(email, purpose, t) ==
  {i \in OtpIds :
     /\ otps[i].email = email
     /\ otps[i].purpose = purpose
     /\ t - otps[i].createdAt <= 5}

(* C22: canRequestOTP(identity, purpose) rejects exactly when 3 or more       *)
(* challenges were created for that pair within the trailing 5 minutes,       *)
(* active, used or expired alike; older challenges and challenges of another  *)
(* identity or purpose do not count.                                          *)
C22_RejectsAtThreeInWindow ==
  \A h \in Handlers :
    oreq[h].op = "request"
    => (ores[h] = "OTP_RATE_LIMIT"
        <=> Cardinality(CreatedInWindow(oreq[h].email, oreq[h].purpose,
                                         oreq[h].at)) >= 3)

(* A request is rejected on three challenges of its pair, one of them exactly *)
(* five minutes old and two of them used, while a challenge of another        *)
(* purpose is in the store.                                                   *)
C22_Witness ==
  /\ ores["h1"] = "OTP_RATE_LIMIT"
  /\ oreq["h1"].email = "alice@x"
  /\ oreq["h1"].purpose = "login"
  /\ \E i \in OtpIds :
       /\ otps[i].email = "alice@x"
       /\ otps[i].purpose = "login"
       /\ otps[i].isUsed
       /\ otps[i].createdAt = oreq["h1"].at - 5
  /\ \E i \in OtpIds : otps[i].purpose = "registration"

(* C34: no step other than the clock turns a canRequestOTP rejection into an   *)
(* acceptance: where canRequestOTP refuses a pair before a verifyOTP,         *)
(* invalidateOTPs or cleanupExpiredOTPs step, it refuses it after the step.   *)
C34_RejectionNotReset ==
  [][now' = now
     => \A e \in Emails, p \in Purposes :
          ~canRequestOTP(otps, e, p, now) => ~canRequestOTP(otps', e, p, now')]_vars

(* C28: of the login challenges created for one email by simple-auth          *)
(* requests, no more than 3 were created within any 5-minute window.          *)
C28_SimpleAuthAtMostThreeInWindow ==
  \A i \in OtpIds :
    Cardinality({j \in OtpIds :
                   /\ otps[j].email = otps[i].email
                   /\ otps[j].purpose = otps[i].purpose
                   /\ otps[i].createdAt <= otps[j].createdAt
                   /\ otps[j].createdAt < otps[i].createdAt + 5}) <= 3

----------------------------------------------------------------------------
(* Session tokens: claims *)

(* The stored identity after one administrative change: deactivated (or       *)
(* activated), deleted, or given another role.                                *)
Administered(stored) ==
  {[stored EXCEPT !.isActive = ~@], [stored EXCEPT !.exists = FALSE]}
  \cup {[stored EXCEPT !.role = r] : r \in UserRoles}

(* C26: the answer of the token check (accepted or the rejection, and the     *)
(* claims passed on) is the same for the same token at the same time in any   *)
(* two states that differ only in the stored identity.                        *)
C26_TokenAloneDecides ==
  \A other \in Administered(ident) :
    /\ vans.op = "verifyToken"
       => verifyToken(tok, now, other) = [code |-> vans.code, role |-> vans.role]
    /\ vans.op = "authMiddleware"
       => authMiddleware(tok, now, other)
            = [code |-> vans.code, role |-> vans.role]

----------------------------------------------------------------------------
(* Access control: claims *)

(* The order the roles are meant to have, lowest first. *)
RoleOrder == <<"faculty", "security", "hod", "security_incharge", "admin">>

RoleRank(r) == CHOOSE i \in 1..Len(RoleOrder) : RoleOrder[i] = r

(* C18: hasRoleLevel is the total order Faculty < Security < HOD <            *)
(* SecurityIncharge < Admin: true of a role and itself, and for two different *)
(* roles true in exactly one direction, the one from the higher role.         *)
C18_RoleLevelTotalOrder ==
  rans.op = "hasRoleLevel"
  => /\ rrole = rtarget => rans.val
     /\ rrole # rtarget => (rans.val <=> ~hasRoleLevel(rtarget, rrole))
     /\ rans.val <=> RoleRank(rrole) >= RoleRank(rtarget)

(* hod against security_incharge: refused. *)
C18_Witness ==
  /\ rans.op = "hasRoleLevel"
  /\ rrole = "hod"
  /\ rtarget = "security_incharge"
  /\ ~rans.val

(* The table entry with the longest pattern among those the route starts     *)
(* with.                                                                      *)
LongestMatch(route) ==
  CHOOSE i \in matchingPatterns(route) :
    \A j \in matchingPatterns(route) :
      Len(ROUTE_ACCESS[j].pattern) <= Len(ROUTE_ACCESS[i].pattern)

(* C19: when table prefixes match the path, canAccessRoute answers by the     *)
(* allowed roles of the longest of them.                                      *)
C19_LongestPrefixDecides ==
  (rans.op = "canAccessRoute" /\ matchingPatterns(rpath) # {})
  => (rans.val <=> rrole \in ROUTE_ACCESS[LongestMatch(rpath)].roles)

(* C20: canAccessRoute is true for every role on /, /login, /register and     *)
(* /health, and false for every role on a path that starts with no table      *)
(* prefix and is not one of those four.                                       *)
C20_PublicAllowlist ==
  rans.op = "canAccessRoute"
  => /\ rpath \in {PathRoot, PathLogin, PathRegister, PathHealth} => rans.val
     /\ (/\ \A i \in 1..Len(ROUTE_ACCESS) :
               ~startsWith(rpath, ROUTE_ACCESS[i].pattern)
         /\ rpath \notin {PathRoot, PathLogin, PathRegister, PathHealth})
        => ~rans.val

(* A public path was allowed to the lowest role. *)
C20_Witness ==
  /\ rans.op = "canAccessRoute"
  /\ rrole = "faculty"
  /\ rpath = PathHealth
  /\ rans.val

(* The three explicit overrides of canManageUser. *)
ManageOverride(manager, target) ==
  \/ manager = "admin"
  \/ manager = "security_incharge" /\ target = "security"
  \/ manager = "hod" /\ target = "faculty"

(* C21: canManageUser(manager, target) is true exactly when an override       *)
(* applies or the manager's level is strictly greater than the target's; the  *)
(* strict comparison equals hasRoleLevel(manager, target) with the two roles  *)
(* different; no role but admin manages a target of equal or higher level.    *)
C21_ManageByOverrideOrHigherLevel ==
  rans.op = "canManageUser"
  => /\ rans.val <=> (\/ ManageOverride(rrole, rtarget)
                      \/ RoleRank(rrole) > RoleRank(rtarget))
     /\ (RoleRank(rrole) > RoleRank(rtarget))
          <=> (hasRoleLevel(rrole, rtarget) /\ rrole # rtarget)
     /\ (rrole # "admin" /\ RoleRank(rtarget) >= RoleRank(rrole))
          => ~rans.val

(* admin manages admin, by the override alone; hod does not manage hod. *)
C21_Witness ==
  /\ rans.op = "canManageUser"
  /\ rrole = "admin"
  /\ rtarget = "admin"
  /\ rans.val

(* C31: the hasRoleLevel behind requireMinRole answers, for every pair of the  *)
(* five roles, as the Permission Engine's hasRoleLevel does; in particular    *)
(* admin meets every minimum role.                                            *)
C31_MiddlewareUsesEngineOrder ==
  rans.op = "authHasRoleLevel"
  => /\ rans.val <=> hasRoleLevel(rrole, rtarget)
     /\ rrole = "admin" => rans.val

(* C30: requireRole(roles) passes an authenticated request on only when the   *)
(* user's role is in roles, and requireMinRole(minRole) only when the role's  *)
(* level is at least minRole's; every other authenticated request is          *)
(* rejected as forbidden, under every NODE_ENV.                               *)
C30_GateAdmitsAuthorizedOnly ==
  /\ gans.op = "requireRole"
     => IF gans.role \in gans.roles THEN gans.code = "next"
        ELSE gans.code = "INSUFFICIENT_PERMISSIONS"
  /\ gans.op = "requireMinRole"
     => IF RoleRank(gans.role) >= RoleRank(gans.min) THEN gans.code = "next"
        ELSE gans.code = "INSUFFICIENT_PERMISSIONS"

====
